---- MODULE Spec2Model ----
(***************************************************************************)
(* Model of app/fok_executor.py: the strict LIMIT FOK order executor with  *)
(* retries and price-drift control.                                        *)
(*                                                                         *)
(* Numbers.  The source computes on floats; the model computes the same    *)
(* expressions exactly, on integers.  Prices are counted in millionths     *)
(* (1e-6) of the quote currency and quantities in whole units, so that a   *)
(* notional (price * qty) is a multiple of 1e-6 and basis points are       *)
(* integers.  On that grid the 1e-12 tolerance of line 93 never decides a  *)
(* comparison (x + 1e-12 >= y iff x >= y), and the 1e-12 price floor of    *)
(* line 95 is 1/PriceEpsInv of one price unit.                             *)
(***************************************************************************)
EXTENDS Integers, Sequences, FiniteSets, TLC

\* ------------------------------------------------------------- bounds
MaxRetriesBound == 4
MaxLevels == 2
MaxQuantity == 2

\* ------------------------------------------------- program constants
BpsScale == 10000
PriceEpsInv == 1000000

SIDE_BUY == "BUY"
SIDE_SELL == "SELL"
Sides == {SIDE_BUY, SIDE_SELL}

\* ------------------------------------------------------------ helpers
Min(a, b) == IF a <= b THEN a ELSE b
Max(a, b) == IF a >= b THEN a ELSE b
\* math.floor(num / den) and math.ceil(num / den) for num >= 0, den > 0
FloorDiv(num, den) == num \div den
CeilDiv(num, den) == (num + den - 1) \div den

\* None (base_price_ref, last_err) and the value that stands for a raised
\* ValueError of the price search
NoPrice == -1
NoErr == [kind |-> "none", attempt |-> 0]

\* ------------------------------------------------- inputs (bounded)
LevelPricesAsk == 10..(9 + MaxLevels)
LevelPricesBid == {19 - p : p \in LevelPricesAsk}
LevelQtys == {1, 2}
Quantities == 1..MaxQuantity
SlippageChoices == {0, 5}
PerAttemptChoices == {2, 5}
MaxTotalChoices == {4, 12}
RetryChoices == 0..MaxRetriesBound

Levels(prices) == prices \X LevelQtys
LevelLists(prices) == UNION {[1..n -> Levels(prices)] : n \in 0..MaxLevels}
IsAscending(l) == \A i \in 1..(Len(l) - 1) : l[i][1] <= l[i + 1][1]
IsDescending(l) == \A i \in 1..(Len(l) - 1) : l[i][1] >= l[i + 1][1]
StrictlyAscending(l) == \A i \in 1..(Len(l) - 1) : l[i][1] < l[i + 1][1]
\* the snapshots the exchange serves during an execution: one level per
\* price, asks ascending and bids descending, both sides with the same
\* depth profile
Mirror(l) == [i \in 1..Len(l) |-> <<19 - l[i][1], l[i][2]>>]
SnapshotBooks ==
  {[asks |-> a, bids |-> Mirror(a)] :
     a \in {l \in LevelLists(LevelPricesAsk) : StrictlyAscending(l)}}
NoBook == [asks |-> <<>>, bids |-> <<>>]

FilterSets ==
  [tick_size : {1, 2}, step_size : {1, 2}, min_qty : {0, 2},
   max_qty : {4, 6}, min_notional : {0, 10, 25}]
\* the symbol infos the exchange may hold during an execution
ExchangeInfos ==
  {f \in FilterSets : /\ f.min_qty = 0
                       /\ f.max_qty = 4
                       /\ f.min_notional = (IF f.step_size = 2 THEN 25 ELSE 0)}
NoInfo == [tick_size |-> 0, step_size |-> 0, min_qty |-> 0,
           max_qty |-> 0, min_notional |-> 0]

\* ------------------------------------------------------ pure functions
\* mutant: the quantity is rounded up to the step
round_step_Up(value, step) ==
  IF step <= 0 THEN value ELSE CeilDiv(value, step) * step

\* _round_step
round_step(value, step) ==
  IF step <= 0 THEN value ELSE FloorDiv(value, step) * step

\* mutant: both sides round down to the tick
round_price_for_side_AlwaysFloor(num, den, tick, side) ==
  IF tick <= 0 THEN FloorDiv(num, den) ELSE FloorDiv(num, den * tick) * tick

\* _round_price_for_side on the rational price num / den (a tick <= 0, which
\* would pass the price through unrounded, is not among the filters drawn)
round_price_for_side(num, den, tick, side) ==
  IF tick <= 0 THEN FloorDiv(num, den)
  ELSE IF side = SIDE_BUY THEN CeilDiv(num, den * tick) * tick
  ELSE FloorDiv(num, den * tick) * tick

\* mutant: running out of levels yields the last level's price, no error
RECURSIVE WalkLevels_LastLevel(_, _, _, _)
WalkLevels_LastLevel(levels, i, accum, quantity) ==
  IF i > Len(levels)
  THEN (IF Len(levels) = 0 THEN NoPrice ELSE levels[Len(levels)][1])
  ELSE IF accum + levels[i][2] >= quantity THEN levels[i][1]
  ELSE WalkLevels_LastLevel(levels, i + 1, accum + levels[i][2], quantity)

\* mutant: a level covers only when the depth is strictly above the target
RECURSIVE WalkLevels_StrictlyMore(_, _, _, _)
WalkLevels_StrictlyMore(levels, i, accum, quantity) ==
  IF i > Len(levels) THEN NoPrice
  ELSE IF accum + levels[i][2] > quantity THEN levels[i][1]
  ELSE WalkLevels_StrictlyMore(levels, i + 1, accum + levels[i][2], quantity)

\* the loop of _price_to_fill_full_qty over one side's levels, from level i
\* with accum accumulated; NoPrice stands for the ValueError after the loop
RECURSIVE WalkLevels(_, _, _, _)
WalkLevels(levels, i, accum, quantity) ==
  IF i > Len(levels) THEN NoPrice
  ELSE IF accum + levels[i][2] >= quantity THEN levels[i][1]
  ELSE WalkLevels(levels, i + 1, accum + levels[i][2], quantity)

\* mutant: the SELL branch walks the asks as well
price_to_fill_full_qty_AsksOnly(orderbook, s, quantity_) ==
  WalkLevels(orderbook.asks, 1, 0, quantity_)

\* _price_to_fill_full_qty
price_to_fill_full_qty(orderbook, s, quantity_) ==
  IF s = SIDE_BUY THEN WalkLevels(orderbook.asks, 1, 0, quantity_)
  ELSE WalkLevels(orderbook.bids, 1, 0, quantity_)

\* mutant: the quantity is not raised to min_qty
apply_filters_qty_NoMinClamp(f, q) ==
  Min(round_step(q, f.step_size), f.max_qty)

\* the quantity half of _apply_filters (lines 63-64)
apply_filters_qty(f, q) ==
  Min(Max(round_step(q, f.step_size), f.min_qty), f.max_qty)

\* the price half of _apply_filters (line 62)
apply_filters_price(f, num, den, s) ==
  round_price_for_side(num, den, f.tick_size, s)

\* _round_step on the rational value num / den (a step <= 0, which would
\* pass the quotient through unrounded, is not among the filters drawn)
round_step_ratio(num, den, step) ==
  IF step <= 0 THEN FloorDiv(num, den) ELSE FloorDiv(num, den * step) * step

\* mutant: the inflated quantity is rounded up to the step
ensure_min_notional_CeilStep(f, p, q) ==
  IF p * q >= f.min_notional THEN q
  ELSE Min(Max(CeilDiv(f.min_notional, Max(p, 1) * f.step_size) * f.step_size,
               f.min_qty), f.max_qty)

\* _ensure_min_notional, given the filters it fetched; line 95 divides by
\* max(price, 1e-12), which is price from one price unit on and
\* 1 / PriceEpsInv of a unit below
ensure_min_notional(f, p, q) ==
  IF p * q >= f.min_notional THEN q
  ELSE LET needed_qty ==
             IF p >= 1 THEN round_step_ratio(f.min_notional, p, f.step_size)
             ELSE round_step_ratio(f.min_notional * PriceEpsInv, 1, f.step_size)
       IN Min(Max(needed_qty, f.min_qty), f.max_qty)

\* raw_price of lines 129-132 as the numerator over BpsScale
raw_price_num(base, s, slippage) ==
  IF s = SIDE_BUY THEN base * (BpsScale + slippage)
  ELSE base * (BpsScale - slippage)

\* mutant: the budget is never found exceeded
drift_would_exceed_Never(total, next_bump, max_total) == FALSE

\* mutant: reaching the ceiling exactly already counts as exceeding it
drift_would_exceed_AtLimit(total, next_bump, max_total) ==
  total + next_bump >= max_total

\* the budget test of line 165
drift_would_exceed(total, next_bump, max_total) == total + next_bump > max_total

\* ------------------------------------------------------------- state
VARIABLES
  pc, side, quantity, slippage_bps, max_retries, per_attempt_drift_bps,
  max_total_drift_bps, exch_info,
  attempt, last_err, total_drift_bps, base_price_ref,
  book, base_price, raw_price, price, qty,
  outcome, raised,
  n_book_fetch, n_filter_fetch, n_submit, n_sleep, budget_break,
  same_book, prev_price,
  pf_book, pf_side, pf_quantity, pf_results,
  qz_pc, qz_f, qz_side, qz_raw_num, qz_qty_in, qz_price, qz_qty, qz_out

\* two calls of place_limit_order_fok_with_retries under way at once: every
\* variable holds the local of that name of each call
VARIABLES
  cc_pc, cc_par, cc_attempt, cc_last_err, cc_total_drift_bps,
  cc_base_price_ref, cc_outcome, cc_raised, cc_hist

\* bot.py, retry_on_error: its arguments, what func did at each invocation,
\* the seconds slept, and how the call ended
VARIABLES
  ro_pc, ro_max_retries, ro_delay, ro_calls, ro_hist, ro_slept,
  ro_outcome, ro_value

\* bot.py, AssetSwitcher inside trading_loop: the clock, the switcher's
\* last_switch_time, the assets of the cycle, the seconds since
\* last_switch_time at which the order under way was sent, and the last
\* direct call of need_to_switch
VARIABLES
  sw_pc, sw_now, sw_last_switch_time, sw_current, sw_should, sw_order_gap,
  sw_probe

\* indicators.py, _determine_market_state: its arguments and what analyze
\* makes of its result
VARIABLES
  ms_pc, ms_atr_percent, ms_rsi, ms_trend_4h, ms_signal_1h, ms_market_state,
  ms_should_hold_base

\* bot.py, trading_loop: one thread's place in the while loop, the number
\* and the clock of the cycle, bot_status["strategy_type"], whether
\* indicator_strategy is set, the locals market_state, current_asset and
\* should_hold_asset, bot_status["switches_count"], error_count, the
\* switcher's last_switch_time, and of the cycle under way: what analyze
\* returned, the market orders sent, the sleep that ended it, what
\* execute_switch returned and switches_count at its start
VARIABLES
  tl_pc, tl_cycle, tl_now, tl_strategy_type, tl_indicator_strategy,
  tl_market_state, tl_current, tl_should, tl_switches_count, tl_error_count,
  tl_last_switch_time, tl_analysis, tl_orders, tl_slept, tl_success,
  tl_count_at_begin

\* bot.py, the web application: the global running, whether API keys are
\* set, whether line 33 could import IndicatorBasedStrategy, where each
\* trading_loop thread is, where the /start handler is, the
\* requests received and the last of them, the calls of init_client,
\* bot_status["status"] and bot_status["strategy_type"], whether
\* indicator_strategy is set, what state.json holds, and per thread: whether
\* its loop has set SIMPLE_MA, and whether it ran the analysis after that
VARIABLES
  svc_running, svc_api_keys, svc_imported, svc_th, svc_start_pc, svc_n_req, svc_last_req,
  svc_inits, svc_status, svc_strategy_type, svc_indicator_strategy, svc_file,
  svc_fell_back, svc_reanalysed

params == <<side, quantity, slippage_bps, max_retries, per_attempt_drift_bps,
            max_total_drift_bps, exch_info>>
locals == <<attempt, last_err, total_drift_bps, base_price_ref,
            book, base_price, raw_price, price, qty>>
ghosts == <<n_book_fetch, n_filter_fetch, n_submit, n_sleep, budget_break,
            same_book, prev_price>>
fok_vars == <<pc, params, locals, outcome, raised, ghosts>>
pf_vars == <<pf_book, pf_side, pf_quantity, pf_results>>
qz_vars == <<qz_pc, qz_f, qz_side, qz_raw_num, qz_qty_in, qz_price, qz_qty, qz_out>>
cc_vars == <<cc_pc, cc_par, cc_attempt, cc_last_err, cc_total_drift_bps,
             cc_base_price_ref, cc_outcome, cc_raised, cc_hist>>
ro_vars == <<ro_pc, ro_max_retries, ro_delay, ro_calls, ro_hist, ro_slept,
             ro_outcome, ro_value>>
sw_vars == <<sw_pc, sw_now, sw_last_switch_time, sw_current, sw_should,
             sw_order_gap, sw_probe>>
\* bot.py and indicators.py
ms_vars == <<ms_pc, ms_atr_percent, ms_rsi, ms_trend_4h, ms_signal_1h,
             ms_market_state, ms_should_hold_base>>
tl_vars == <<tl_pc, tl_cycle, tl_now, tl_strategy_type, tl_indicator_strategy,
             tl_market_state, tl_current, tl_should, tl_switches_count,
             tl_error_count, tl_last_switch_time, tl_analysis, tl_orders,
             tl_slept, tl_success, tl_count_at_begin>>
\* the threads of the web application
svc_vars == <<svc_running, svc_api_keys, svc_imported, svc_th, svc_start_pc, svc_n_req,
              svc_last_req, svc_inits, svc_status, svc_strategy_type,
              svc_indicator_strategy, svc_file, svc_fell_back, svc_reanalysed>>
web_vars == <<tl_vars, svc_vars>>
bot_vars == <<ro_vars, sw_vars, ms_vars, web_vars>>
\* the parts of the model outside fok_executor's single call and its helpers
ext_vars == <<cc_vars, bot_vars>>
\* what the executor never touches
others == <<pf_vars, qz_vars, ext_vars>>
vars == <<fok_vars, pf_vars, qz_vars, ext_vars>>

\* errors: the kinds the collaborators raise
ExchangeErrKinds == {"FokKill", "RateLimit", "Fatal"}
FetchErrKinds == {"ApiError", "Network"}

\* the calls that run side by side
Execs == {1, 2}

CcIdle ==
  /\ cc_pc = [i \in Execs |-> "idle"]
  /\ cc_par = [i \in Execs |-> [max_retries |-> 0, per_attempt_drift_bps |-> 0,
                                 max_total_drift_bps |-> 0]]
  /\ cc_attempt = [i \in Execs |-> 0]
  /\ cc_last_err = [i \in Execs |-> NoErr]
  /\ cc_total_drift_bps = [i \in Execs |-> 0]
  /\ cc_base_price_ref = [i \in Execs |-> NoPrice]
  /\ cc_outcome = [i \in Execs |-> "running"]
  /\ cc_raised = [i \in Execs |-> NoErr]
  /\ cc_hist = [i \in Execs |-> <<>>]

RoIdle ==
  /\ ro_pc = "idle"
  /\ ro_max_retries = 0
  /\ ro_delay = 0
  /\ ro_calls = 0
  /\ ro_hist = <<>>
  /\ ro_slept = 0
  /\ ro_outcome = "running"
  /\ ro_value = "none"

NoGap == -1
NoProbe == [elapsed |-> 0, differ |-> FALSE, result |-> FALSE, made |-> FALSE]

SwIdle ==
  /\ sw_pc = "idle"
  /\ sw_now = 0
  /\ sw_last_switch_time = 0
  /\ sw_current = "USDT"
  /\ sw_should = "USDT"
  /\ sw_order_gap = NoGap
  /\ sw_probe = NoProbe

MsIdle ==
  /\ ms_pc = "idle"
  /\ ms_atr_percent = 0
  /\ ms_rsi = 0
  /\ ms_trend_4h = "sideways"
  /\ ms_signal_1h = "none"
  /\ ms_market_state = "unset"
  /\ ms_should_hold_base = FALSE

TlIdle ==
  /\ tl_pc = "idle"
  /\ tl_cycle = 0
  /\ tl_now = 0
  /\ tl_strategy_type = "SIMPLE_MA"
  /\ tl_indicator_strategy = FALSE
  /\ tl_market_state = "no_trade"
  /\ tl_current = "USDT"
  /\ tl_should = "USDT"
  /\ tl_switches_count = 0
  /\ tl_error_count = 0
  /\ tl_last_switch_time = 0
  /\ tl_analysis = "none"
  /\ tl_orders = 0
  /\ tl_slept = "none"
  /\ tl_success = "none"
  /\ tl_count_at_begin = 0

\* the trading_loop threads one process is followed for
MaxThreads == 2
Threads == 1..MaxThreads
\* state.json does not exist
NoFile == [status |-> "absent", strategy_type |-> "absent"]

SvcIdle ==
  /\ svc_running = FALSE
  /\ svc_api_keys = FALSE
  /\ svc_imported = FALSE
  /\ svc_th = [t \in Threads |-> "unborn"]
  /\ svc_start_pc = "off"
  /\ svc_n_req = 0
  /\ svc_last_req = "none"
  /\ svc_inits = 0
  /\ svc_status = "idle"
  /\ svc_strategy_type = "MA_RSI_ATR"
  /\ svc_indicator_strategy = FALSE
  /\ svc_file = NoFile
  /\ svc_fell_back = [t \in Threads |-> FALSE]
  /\ svc_reanalysed = [t \in Threads |-> FALSE]

WebIdle == TlIdle /\ SvcIdle

BotIdle == RoIdle /\ SwIdle /\ MsIdle /\ WebIdle

ExtIdle == CcIdle /\ BotIdle

\* the price finder and the quantizer are not under test
PfIdle ==
  /\ pf_book = NoBook
  /\ pf_side = SIDE_BUY
  /\ pf_quantity = 0
  /\ pf_results = <<>>

QzIdle ==
  /\ qz_pc = "idle"
  /\ qz_f = NoInfo
  /\ qz_side = SIDE_BUY
  /\ qz_raw_num = 0
  /\ qz_qty_in = 0
  /\ qz_price = NoPrice
  /\ qz_qty = 0
  /\ qz_out = 0

\* lines 116-121: the state on entry, before the first iteration
Init ==
  /\ PfIdle
  /\ QzIdle
  /\ ExtIdle
  /\ side \in Sides
  /\ quantity \in Quantities
  /\ slippage_bps \in SlippageChoices
  /\ max_retries \in RetryChoices
  /\ per_attempt_drift_bps \in PerAttemptChoices
  /\ max_total_drift_bps \in MaxTotalChoices
  /\ exch_info \in ExchangeInfos \cup {NoInfo}
  /\ pc = "loop"
  /\ attempt = 0
  /\ last_err = NoErr
  /\ total_drift_bps = 0
  /\ base_price_ref = NoPrice
  /\ book = NoBook
  /\ base_price = NoPrice
  /\ raw_price = 0
  /\ price = NoPrice
  /\ qty = 0
  /\ outcome = "running"
  /\ raised = NoErr
  /\ n_book_fetch = 0
  /\ n_filter_fetch = 0
  /\ n_submit = 0
  /\ n_sleep = 0
  /\ budget_break = FALSE
  /\ same_book = FALSE
  /\ prev_price = NoPrice

\* an exception leaves the function
Propagate(kind) ==
  /\ pc' = "done"
  /\ outcome' = "raised"
  /\ raised' = [kind |-> kind, attempt |-> attempt]

\* mutant: the order book is fetched for the first attempt only
LoopNext_ReuseBook ==
  /\ pc = "loop"
  /\ UNCHANGED others
  /\ attempt < max_retries
  /\ attempt' = attempt + 1
  /\ pc' = (IF attempt >= 1 THEN "find_price" ELSE "fetch_book")
  /\ UNCHANGED <<params, last_err, total_drift_bps, base_price_ref, book,
                 base_price, raw_price, price, qty, outcome, raised, ghosts>>

\* mutant: the range runs one attempt too far
LoopNext_OffByOne ==
  /\ pc = "loop"
  /\ UNCHANGED others
  /\ attempt <= max_retries
  /\ attempt' = attempt + 1
  /\ pc' = "fetch_book"
  /\ UNCHANGED <<params, last_err, total_drift_bps, base_price_ref, book,
                 base_price, raw_price, price, qty, outcome, raised, ghosts>>

\* line 121: the for statement takes the next attempt, or the range is used up
LoopNext ==
  /\ pc = "loop"
  /\ UNCHANGED others
  /\ attempt < max_retries
  /\ attempt' = attempt + 1
  /\ pc' = "fetch_book"
  /\ UNCHANGED <<params, last_err, total_drift_bps, base_price_ref, book,
                 base_price, raw_price, price, qty, outcome, raised, ghosts>>

LoopExhausted ==
  /\ pc = "loop"
  /\ UNCHANGED others
  /\ attempt >= max_retries
  /\ pc' = "after_loop"
  /\ UNCHANGED <<params, locals, outcome, raised, ghosts>>

\* line 123: client.get_order_book
FetchBook ==
  /\ pc = "fetch_book"
  /\ UNCHANGED others
  /\ \E b \in SnapshotBooks :
       /\ book' = b
       /\ pc' = "find_price"
       /\ same_book' = (attempt > 1 /\ b = book)
       /\ n_book_fetch' = n_book_fetch + 1
       /\ UNCHANGED <<params, attempt, last_err, total_drift_bps, base_price_ref,
                      base_price, raw_price, price, qty, outcome, raised,
                      n_filter_fetch, n_submit, n_sleep, budget_break, prev_price>>

\* mutant: a failed order-book call is handled like a rejected order
FetchBookRaises_Retried ==
  /\ pc = "fetch_book"
  /\ UNCHANGED others
  /\ \E k \in FetchErrKinds :
       last_err' = [kind |-> k, attempt |-> attempt]
  /\ pc' = "rejected"
  /\ n_book_fetch' = n_book_fetch + 1
  /\ UNCHANGED <<params, attempt, total_drift_bps, base_price_ref, book,
                 base_price, raw_price, price, qty, outcome, raised,
                 n_filter_fetch, n_submit, n_sleep, budget_break,
                 same_book, prev_price>>

FetchBookRaises ==
  /\ pc = "fetch_book"
  /\ UNCHANGED others
  /\ \E k \in FetchErrKinds : Propagate(k)
  /\ n_book_fetch' = n_book_fetch + 1
  /\ UNCHANGED <<params, locals, n_filter_fetch, n_submit, n_sleep, budget_break,
                 same_book, prev_price>>

\* lines 124-126: the covering price of this attempt's book
FindPrice ==
  /\ pc = "find_price"
  /\ UNCHANGED others
  /\ LET p == price_to_fill_full_qty(book, side, quantity) IN
       /\ p # NoPrice
       /\ base_price' = p
       /\ base_price_ref' = IF base_price_ref = NoPrice THEN p ELSE base_price_ref
  /\ pc' = "apply_filters"
  /\ UNCHANGED <<params, attempt, last_err, total_drift_bps, book, raw_price,
                 price, qty, outcome, raised, ghosts>>

FindPriceRaises ==
  /\ pc = "find_price"
  /\ UNCHANGED others
  /\ price_to_fill_full_qty(book, side, quantity) = NoPrice
  /\ Propagate("InsufficientLiquidity")
  /\ UNCHANGED <<params, locals, ghosts>>

\* lines 128-135: raw_price and _apply_filters (which fetches the filters)
ApplyFilters ==
  /\ pc = "apply_filters"
  /\ UNCHANGED others
  /\ exch_info # NoInfo
  /\ raw_price' = raw_price_num(base_price, side, slippage_bps)
  /\ price' = apply_filters_price(exch_info, raw_price', BpsScale, side)
  /\ qty' = apply_filters_qty(exch_info, quantity)
  /\ n_filter_fetch' = n_filter_fetch + 1
  /\ pc' = "min_notional"
  /\ UNCHANGED <<params, attempt, last_err, total_drift_bps, base_price_ref, book,
                 base_price, outcome, raised,
                 n_book_fetch, n_submit, n_sleep, budget_break,
                 same_book, prev_price>>

\* mutant: a missing symbol is handled like a rejected order
ApplyFiltersRaises_Retries ==
  /\ pc = "apply_filters"
  /\ UNCHANGED others
  /\ \/ /\ exch_info = NoInfo
        /\ last_err' = [kind |-> "SymbolNotFound", attempt |-> attempt]
        /\ pc' = "rejected"
        /\ UNCHANGED <<outcome, raised>>
     \/ /\ \E k \in FetchErrKinds : Propagate(k)
        /\ UNCHANGED last_err
  /\ n_filter_fetch' = n_filter_fetch + 1
  /\ UNCHANGED <<params, attempt, total_drift_bps, base_price_ref, book,
                 base_price, raw_price, price, qty, n_book_fetch, n_submit,
                 n_sleep, budget_break, same_book, prev_price>>

\* lines 35-37: no symbol info (ValueError), or the call itself fails
ApplyFiltersRaises ==
  /\ pc = "apply_filters"
  /\ UNCHANGED others
  /\ \/ exch_info = NoInfo /\ Propagate("SymbolNotFound")
     \/ \E k \in FetchErrKinds : Propagate(k)
  /\ n_filter_fetch' = n_filter_fetch + 1
  /\ UNCHANGED <<params, locals, n_book_fetch, n_submit, n_sleep, budget_break,
                 same_book, prev_price>>

\* line 138: _ensure_min_notional (which fetches the filters again)
EnsureMinNotional ==
  /\ pc = "min_notional"
  /\ UNCHANGED others
  /\ exch_info # NoInfo
  /\ qty' = ensure_min_notional(exch_info, price, qty)
  /\ n_filter_fetch' = n_filter_fetch + 1
  /\ pc' = "submit"
  /\ UNCHANGED <<params, attempt, last_err, total_drift_bps, base_price_ref, book,
                 base_price, raw_price, price, outcome, raised,
                 n_book_fetch, n_submit, n_sleep, budget_break,
                 same_book, prev_price>>

EnsureMinNotionalRaises ==
  /\ pc = "min_notional"
  /\ UNCHANGED others
  /\ \E k \in FetchErrKinds : Propagate(k)
  /\ n_filter_fetch' = n_filter_fetch + 1
  /\ UNCHANGED <<params, locals, n_book_fetch, n_submit, n_sleep, budget_break,
                 same_book, prev_price>>

\* mutant: the filled order is not returned, the loop goes on
SubmitFilled_KeepsLooping ==
  /\ pc = "submit"
  /\ UNCHANGED others
  /\ n_submit' = n_submit + 1
  /\ prev_price' = price
  /\ pc' = "sleep"
  /\ outcome' = "returned"
  /\ UNCHANGED <<params, locals, raised, n_book_fetch, n_filter_fetch, n_sleep,
                 budget_break, same_book>>

\* lines 146-156: create_order fills the order completely
SubmitFilled ==
  /\ pc = "submit"
  /\ UNCHANGED others
  /\ n_submit' = n_submit + 1
  /\ prev_price' = price
  /\ pc' = "done"
  /\ outcome' = "returned"
  /\ UNCHANGED <<params, locals, raised, n_book_fetch, n_filter_fetch, n_sleep,
                 budget_break, same_book>>

\* mutant: only the first rejection is remembered
SubmitRejected_KeepsFirstErr ==
  /\ pc = "submit"
  /\ UNCHANGED others
  /\ \E k \in ExchangeErrKinds :
       last_err' = (IF last_err = NoErr THEN [kind |-> k, attempt |-> attempt]
                    ELSE last_err)
  /\ n_submit' = n_submit + 1
  /\ prev_price' = price
  /\ pc' = "rejected"
  /\ UNCHANGED <<params, attempt, total_drift_bps, base_price_ref, book,
                 base_price, raw_price, price, qty, outcome, raised,
                 n_book_fetch, n_filter_fetch, n_sleep, budget_break,
                 same_book>>

\* lines 157-161: create_order raises BinanceAPIException / BinanceOrderException
SubmitRejected ==
  /\ pc = "submit"
  /\ UNCHANGED others
  /\ \E k \in ExchangeErrKinds :
       last_err' = [kind |-> k, attempt |-> attempt]
  /\ n_submit' = n_submit + 1
  /\ prev_price' = price
  /\ pc' = "rejected"
  /\ UNCHANGED <<params, attempt, total_drift_bps, base_price_ref, book,
                 base_price, raw_price, price, qty, outcome, raised,
                 n_book_fetch, n_filter_fetch, n_sleep, budget_break,
                 same_book>>

\* create_order raises anything else: not caught by line 157
SubmitRaisesOther ==
  /\ pc = "submit"
  /\ UNCHANGED others
  /\ Propagate("Network")
  /\ n_submit' = n_submit + 1
  /\ prev_price' = price
  /\ UNCHANGED <<params, locals, n_book_fetch, n_filter_fetch, n_sleep, budget_break,
                 same_book>>

\* lines 163-170: the drift budget is used up: break
BudgetBreak ==
  /\ pc = "rejected"
  /\ UNCHANGED others
  /\ drift_would_exceed(total_drift_bps, per_attempt_drift_bps, max_total_drift_bps)
  /\ budget_break' = TRUE
  /\ pc' = "after_loop"
  /\ UNCHANGED <<params, locals, outcome, raised,
                 n_book_fetch, n_filter_fetch, n_submit, n_sleep,
                 same_book, prev_price>>

\* mutant: the bump is taken off the total
BudgetConsume_Decrement ==
  /\ pc = "rejected"
  /\ UNCHANGED others
  /\ ~drift_would_exceed(total_drift_bps, per_attempt_drift_bps, max_total_drift_bps)
  /\ total_drift_bps' = total_drift_bps - per_attempt_drift_bps
  /\ pc' = "sleep"
  /\ UNCHANGED <<params, attempt, last_err, base_price_ref, book, base_price,
                 raw_price, price, qty, outcome, raised, ghosts>>

\* mutant: the bump grows with the attempt number
BudgetConsume_Escalating ==
  /\ pc = "rejected"
  /\ UNCHANGED others
  /\ ~drift_would_exceed(total_drift_bps, per_attempt_drift_bps, max_total_drift_bps)
  /\ total_drift_bps' = total_drift_bps + attempt * per_attempt_drift_bps
  /\ pc' = "sleep"
  /\ UNCHANGED <<params, attempt, last_err, base_price_ref, book, base_price,
                 raw_price, price, qty, outcome, raised, ghosts>>

\* mutant: the retry starts without the pause
BudgetConsume_NoSleep ==
  /\ pc = "rejected"
  /\ UNCHANGED others
  /\ ~drift_would_exceed(total_drift_bps, per_attempt_drift_bps, max_total_drift_bps)
  /\ total_drift_bps' = total_drift_bps + per_attempt_drift_bps
  /\ pc' = "loop"
  /\ UNCHANGED <<params, attempt, last_err, base_price_ref, book, base_price,
                 raw_price, price, qty, outcome, raised, ghosts>>

\* mutant: after the last permitted attempt the pause is left out
BudgetConsume_SkipsLastSleep ==
  /\ pc = "rejected"
  /\ UNCHANGED others
  /\ ~drift_would_exceed(total_drift_bps, per_attempt_drift_bps, max_total_drift_bps)
  /\ total_drift_bps' = total_drift_bps + per_attempt_drift_bps
  /\ pc' = (IF attempt = max_retries THEN "loop" ELSE "sleep")
  /\ UNCHANGED <<params, attempt, last_err, base_price_ref, book, base_price,
                 raw_price, price, qty, outcome, raised, ghosts>>

\* line 171: the bump is booked
BudgetConsume ==
  /\ pc = "rejected"
  /\ UNCHANGED others
  /\ ~drift_would_exceed(total_drift_bps, per_attempt_drift_bps, max_total_drift_bps)
  /\ total_drift_bps' = total_drift_bps + per_attempt_drift_bps
  /\ pc' = "sleep"
  /\ UNCHANGED <<params, attempt, last_err, base_price_ref, book, base_price,
                 raw_price, price, qty, outcome, raised, ghosts>>

\* line 173: time.sleep(retry_sleep), then back to the for statement
Sleep ==
  /\ pc = "sleep"
  /\ UNCHANGED others
  /\ n_sleep' = n_sleep + 1
  /\ pc' = "loop"
  /\ UNCHANGED <<params, locals, outcome, raised,
                 n_book_fetch, n_filter_fetch, n_submit, budget_break,
                 same_book, prev_price>>

\* lines 175-176
RaiseLastErr ==
  /\ pc = "after_loop"
  /\ UNCHANGED others
  /\ last_err # NoErr
  /\ pc' = "done"
  /\ outcome' = "raised"
  /\ raised' = last_err
  /\ UNCHANGED <<params, locals, ghosts>>

\* mutant: the function falls off its end and returns None
RaiseRuntimeError_ReturnsNone ==
  /\ pc = "after_loop"
  /\ UNCHANGED others
  /\ last_err = NoErr
  /\ pc' = "done"
  /\ outcome' = "returned"
  /\ UNCHANGED <<params, locals, raised, ghosts>>

\* line 177
RaiseRuntimeError ==
  /\ pc = "after_loop"
  /\ UNCHANGED others
  /\ last_err = NoErr
  /\ Propagate("RuntimeError")
  /\ UNCHANGED <<params, locals, ghosts>>

Next ==
  \/ LoopNext
  \/ LoopExhausted
  \/ FetchBook
  \/ FetchBookRaises
  \/ FindPrice
  \/ FindPriceRaises
  \/ ApplyFilters
  \/ ApplyFiltersRaises
  \/ EnsureMinNotional
  \/ EnsureMinNotionalRaises
  \/ SubmitFilled
  \/ SubmitRejected
  \/ SubmitRaisesOther
  \/ BudgetBreak
  \/ BudgetConsume
  \/ Sleep
  \/ RaiseLastErr
  \/ RaiseRuntimeError

Spec == Init /\ [][Next]_vars

\* ---------------------------------------------- _price_to_fill_full_qty
\* the executor is not running
\* termination rests on the loop control (max_retries, the drift budget and
\* the outcomes of the exchange calls): the parameters that only move the
\* price and the quantity are fixed here
InitFair ==
  /\ Init
  /\ slippage_bps = 0
  /\ exch_info \in {NoInfo} \cup
        {f \in ExchangeInfos : f.tick_size = 1 /\ f.step_size = 1}

\* every call of the exchange client and time.sleep return: the function
\* keeps taking steps until it has returned or raised
FairSpec == InitFair /\ [][Next]_vars /\ WF_vars(Next)

FokIdle ==
  /\ pc = "idle"
  /\ side = SIDE_BUY
  /\ quantity = 0
  /\ slippage_bps = 0
  /\ max_retries = 0
  /\ per_attempt_drift_bps = 0
  /\ max_total_drift_bps = 0
  /\ exch_info = NoInfo
  /\ attempt = 0
  /\ last_err = NoErr
  /\ total_drift_bps = 0
  /\ base_price_ref = NoPrice
  /\ book = NoBook
  /\ base_price = NoPrice
  /\ raw_price = 0
  /\ price = NoPrice
  /\ qty = 0
  /\ outcome = "running"
  /\ raised = NoErr
  /\ n_book_fetch = 0
  /\ n_filter_fetch = 0
  /\ n_submit = 0
  /\ n_sleep = 0
  /\ budget_break = FALSE
  /\ same_book = FALSE
  /\ prev_price = NoPrice

\* any list of levels, sorted or not, on either side
AnyBooks ==
  {[asks |-> a, bids |-> b] :
     a \in LevelLists(LevelPricesAsk), b \in LevelLists(LevelPricesBid)}

InitPrice ==
  /\ FokIdle
  /\ QzIdle
  /\ ExtIdle
  /\ pf_book \in AnyBooks
  /\ pf_side \in Sides
  /\ pf_quantity \in 1..(MaxQuantity + 1)
  /\ pf_results = <<>>

\* mutant: the walk takes the first level off the list it was given
CallPriceFinder_ConsumesBook ==
  /\ Len(pf_results) < 2
  /\ pf_results' =
       Append(pf_results, price_to_fill_full_qty(pf_book, pf_side, pf_quantity))
  /\ pf_book' =
       [asks |-> IF pf_side = SIDE_BUY /\ pf_book.asks # <<>>
                 THEN Tail(pf_book.asks) ELSE pf_book.asks,
        bids |-> IF pf_side = SIDE_SELL /\ pf_book.bids # <<>>
                 THEN Tail(pf_book.bids) ELSE pf_book.bids]
  /\ UNCHANGED <<pf_side, pf_quantity, fok_vars, qz_vars, ext_vars>>

\* one call of _price_to_fill_full_qty; the function only reads its arguments
CallPriceFinder ==
  /\ Len(pf_results) < 2
  /\ pf_results' =
       Append(pf_results, price_to_fill_full_qty(pf_book, pf_side, pf_quantity))
  /\ UNCHANGED <<pf_book, pf_side, pf_quantity, fok_vars, qz_vars, ext_vars>>

NextPrice == CallPriceFinder

SpecPrice == InitPrice /\ [][NextPrice]_vars

\* ------------------------------------ _apply_filters, _ensure_min_notional
QzPrices == {3, 2, 10}
QzQtys == 1..(MaxQuantity + 1)

InitQuant ==
  /\ FokIdle
  /\ PfIdle
  /\ ExtIdle
  /\ qz_pc = "start"
  /\ qz_f \in FilterSets
  /\ qz_side \in Sides
  /\ qz_raw_num \in {raw_price_num(b, qz_side, sl) : b \in QzPrices, sl \in SlippageChoices}
  /\ qz_qty_in \in QzQtys
  /\ qz_price = NoPrice
  /\ qz_qty = 0
  /\ qz_out = 0

\* line 135: price, qty = _apply_filters(client, symbol, side, raw_price, quantity)
QzApplyFilters ==
  /\ qz_pc = "start"
  /\ qz_price' = apply_filters_price(qz_f, qz_raw_num, BpsScale, qz_side)
  /\ qz_qty' = apply_filters_qty(qz_f, qz_qty_in)
  /\ qz_pc' = "filtered"
  /\ UNCHANGED <<qz_f, qz_side, qz_raw_num, qz_qty_in, qz_out, fok_vars, pf_vars, ext_vars>>

\* line 138: qty = _ensure_min_notional(client, symbol, price, qty)
QzEnsureMinNotional ==
  /\ qz_pc = "filtered"
  /\ qz_out' = ensure_min_notional(qz_f, qz_price, qz_qty)
  /\ qz_pc' = "done"
  /\ UNCHANGED <<qz_f, qz_side, qz_raw_num, qz_qty_in, qz_price, qz_qty,
                 fok_vars, pf_vars, ext_vars>>

\* _ensure_min_notional called on any price and quantity
QzEnsureMinNotionalAny ==
  /\ qz_pc = "start"
  /\ \E p \in QzPrices, q \in QzQtys :
       /\ qz_price' = p
       /\ qz_qty' = q
       /\ qz_out' = ensure_min_notional(qz_f, p, q)
  /\ qz_pc' = "done"
  /\ UNCHANGED <<qz_f, qz_side, qz_raw_num, qz_qty_in, fok_vars, pf_vars, ext_vars>>

NextQuant ==
  \/ QzApplyFilters
  \/ QzEnsureMinNotional
  \/ QzEnsureMinNotionalAny

SpecQuant == InitQuant /\ [][NextQuant]_vars

\* ------------------------------------------- two calls running side by side
\* Each call is the function of lines 102-177 with its own locals; the steps
\* of the two calls interleave freely. Pricing (lines 124-138) is folded into
\* the fetch step, and cc_hist keeps what the exchange answered to each call.
MaxPairRetries == 2
PairPrices == {10, 11}
PairMaxTotalChoices == {4}
PairParams ==
  [max_retries : 0..MaxPairRetries,
   per_attempt_drift_bps : PerAttemptChoices,
   max_total_drift_bps : PairMaxTotalChoices]
PairRejections == {"FokKill", "RateLimit"}
NotPair == <<fok_vars, pf_vars, qz_vars, bot_vars>>

InitPair ==
  /\ FokIdle
  /\ PfIdle
  /\ QzIdle
  /\ BotIdle
  /\ cc_par \in [Execs -> PairParams]
  /\ cc_pc = [i \in Execs |-> "loop"]
  /\ cc_attempt = [i \in Execs |-> 0]
  /\ cc_last_err = [i \in Execs |-> NoErr]
  /\ cc_total_drift_bps = [i \in Execs |-> 0]
  /\ cc_base_price_ref = [i \in Execs |-> NoPrice]
  /\ cc_outcome = [i \in Execs |-> "running"]
  /\ cc_raised = [i \in Execs |-> NoErr]
  /\ cc_hist = [i \in Execs |-> <<>>]

\* line 121
CcLoopNext(i) ==
  /\ cc_pc[i] = "loop"
  /\ cc_attempt[i] < cc_par[i].max_retries
  /\ cc_attempt' = [cc_attempt EXCEPT ![i] = @ + 1]
  /\ cc_pc' = [cc_pc EXCEPT ![i] = "fetch_book"]
  /\ UNCHANGED <<cc_par, cc_last_err, cc_total_drift_bps, cc_base_price_ref,
                 cc_outcome, cc_raised, cc_hist, NotPair>>

CcLoopExhausted(i) ==
  /\ cc_pc[i] = "loop"
  /\ cc_attempt[i] >= cc_par[i].max_retries
  /\ cc_pc' = [cc_pc EXCEPT ![i] = "after_loop"]
  /\ UNCHANGED <<cc_par, cc_attempt, cc_last_err, cc_total_drift_bps,
                 cc_base_price_ref, cc_outcome, cc_raised, cc_hist, NotPair>>

\* lines 123-138: the book holds the quantity at price p
CcFetchAndPrice(i) ==
  /\ cc_pc[i] = "fetch_book"
  /\ \E p \in PairPrices :
       /\ cc_base_price_ref' =
            [cc_base_price_ref EXCEPT ![i] = IF @ = NoPrice THEN p ELSE @]
       /\ cc_hist' = [cc_hist EXCEPT
                        ![i] = Append(@, [price |-> p, result |-> "pending"])]
  /\ cc_pc' = [cc_pc EXCEPT ![i] = "submit"]
  /\ UNCHANGED <<cc_par, cc_attempt, cc_last_err, cc_total_drift_bps,
                 cc_outcome, cc_raised, NotPair>>

\* lines 123-124 and 85-86: the book is too thin, ValueError leaves the call
CcThinBook(i) ==
  /\ cc_pc[i] = "fetch_book"
  /\ cc_hist' = [cc_hist EXCEPT
                   ![i] = Append(@, [price |-> NoPrice, result |-> "none"])]
  /\ cc_pc' = [cc_pc EXCEPT ![i] = "done"]
  /\ cc_outcome' = [cc_outcome EXCEPT ![i] = "raised"]
  /\ cc_raised' = [cc_raised EXCEPT
                     ![i] = [kind |-> "InsufficientLiquidity",
                             attempt |-> cc_attempt[i]]]
  /\ UNCHANGED <<cc_par, cc_attempt, cc_last_err, cc_total_drift_bps,
                 cc_base_price_ref, NotPair>>

\* lines 146-156
CcSubmitFilled(i) ==
  /\ cc_pc[i] = "submit"
  /\ cc_hist' = [cc_hist EXCEPT ![i][Len(cc_hist[i])].result = "fill"]
  /\ cc_pc' = [cc_pc EXCEPT ![i] = "done"]
  /\ cc_outcome' = [cc_outcome EXCEPT ![i] = "returned"]
  /\ UNCHANGED <<cc_par, cc_attempt, cc_last_err, cc_total_drift_bps,
                 cc_base_price_ref, cc_raised, NotPair>>

\* lines 157-161
CcSubmitRejected(i) ==
  /\ cc_pc[i] = "submit"
  /\ \E k \in PairRejections :
       /\ cc_last_err' = [cc_last_err EXCEPT
                            ![i] = [kind |-> k, attempt |-> cc_attempt[i]]]
       /\ cc_hist' = [cc_hist EXCEPT ![i][Len(cc_hist[i])].result = k]
  /\ cc_pc' = [cc_pc EXCEPT ![i] = "rejected"]
  /\ UNCHANGED <<cc_par, cc_attempt, cc_total_drift_bps, cc_base_price_ref,
                 cc_outcome, cc_raised, NotPair>>

\* lines 163-170
CcBudgetBreak(i) ==
  /\ cc_pc[i] = "rejected"
  /\ drift_would_exceed(cc_total_drift_bps[i], cc_par[i].per_attempt_drift_bps,
                        cc_par[i].max_total_drift_bps)
  /\ cc_pc' = [cc_pc EXCEPT ![i] = "after_loop"]
  /\ UNCHANGED <<cc_par, cc_attempt, cc_last_err, cc_total_drift_bps,
                 cc_base_price_ref, cc_outcome, cc_raised, cc_hist, NotPair>>

\* mutant: total_drift_bps is one module-level number shared by the calls
CcBudgetConsume_SharedTotal(i) ==
  /\ cc_pc[i] = "rejected"
  /\ ~drift_would_exceed(cc_total_drift_bps[i], cc_par[i].per_attempt_drift_bps,
                         cc_par[i].max_total_drift_bps)
  /\ cc_total_drift_bps' =
       [j \in Execs |-> cc_total_drift_bps[i] + cc_par[i].per_attempt_drift_bps]
  /\ cc_pc' = [cc_pc EXCEPT ![i] = "sleep"]
  /\ UNCHANGED <<cc_par, cc_attempt, cc_last_err, cc_base_price_ref,
                 cc_outcome, cc_raised, cc_hist, NotPair>>

\* line 171
CcBudgetConsume(i) ==
  /\ cc_pc[i] = "rejected"
  /\ ~drift_would_exceed(cc_total_drift_bps[i], cc_par[i].per_attempt_drift_bps,
                         cc_par[i].max_total_drift_bps)
  /\ cc_total_drift_bps' =
       [cc_total_drift_bps EXCEPT ![i] = @ + cc_par[i].per_attempt_drift_bps]
  /\ cc_pc' = [cc_pc EXCEPT ![i] = "sleep"]
  /\ UNCHANGED <<cc_par, cc_attempt, cc_last_err, cc_base_price_ref,
                 cc_outcome, cc_raised, cc_hist, NotPair>>

\* line 173
CcSleep(i) ==
  /\ cc_pc[i] = "sleep"
  /\ cc_pc' = [cc_pc EXCEPT ![i] = "loop"]
  /\ UNCHANGED <<cc_par, cc_attempt, cc_last_err, cc_total_drift_bps,
                 cc_base_price_ref, cc_outcome, cc_raised, cc_hist, NotPair>>

\* lines 175-176
CcRaiseLastErr(i) ==
  /\ cc_pc[i] = "after_loop"
  /\ cc_last_err[i] # NoErr
  /\ cc_pc' = [cc_pc EXCEPT ![i] = "done"]
  /\ cc_outcome' = [cc_outcome EXCEPT ![i] = "raised"]
  /\ cc_raised' = [cc_raised EXCEPT ![i] = cc_last_err[i]]
  /\ UNCHANGED <<cc_par, cc_attempt, cc_last_err, cc_total_drift_bps,
                 cc_base_price_ref, cc_hist, NotPair>>

\* line 177
CcRaiseRuntimeError(i) ==
  /\ cc_pc[i] = "after_loop"
  /\ cc_last_err[i] = NoErr
  /\ cc_pc' = [cc_pc EXCEPT ![i] = "done"]
  /\ cc_outcome' = [cc_outcome EXCEPT ![i] = "raised"]
  /\ cc_raised' = [cc_raised EXCEPT
                     ![i] = [kind |-> "RuntimeError", attempt |-> cc_attempt[i]]]
  /\ UNCHANGED <<cc_par, cc_attempt, cc_last_err, cc_total_drift_bps,
                 cc_base_price_ref, cc_hist, NotPair>>

NextPair ==
  \E i \in Execs :
    \/ CcLoopNext(i)
    \/ CcLoopExhausted(i)
    \/ CcFetchAndPrice(i)
    \/ CcThinBook(i)
    \/ CcSubmitFilled(i)
    \/ CcSubmitRejected(i)
    \/ CcBudgetBreak(i)
    \/ CcBudgetConsume(i)
    \/ CcSleep(i)
    \/ CcRaiseLastErr(i)
    \/ CcRaiseRuntimeError(i)

SpecPair == InitPair /\ [][NextPair]_vars

\* the same function run by itself, from attempt n on, against the answers h
RECURSIVE RunAloneFrom(_, _, _, _, _, _)
RunAloneFrom(p, h, n, drift, ref, err) ==
  IF n > p.max_retries
  THEN [outcome |-> "raised",
        raised |-> IF err = NoErr
                   THEN [kind |-> "RuntimeError", attempt |-> n - 1] ELSE err,
        attempt |-> n - 1, total_drift_bps |-> drift,
        base_price_ref |-> ref, last_err |-> err]
  ELSE IF n > Len(h) \/ h[n].result = "pending"
  THEN [outcome |-> "running", raised |-> NoErr, attempt |-> n,
        total_drift_bps |-> drift, base_price_ref |-> ref, last_err |-> err]
  ELSE IF h[n].price = NoPrice
  THEN [outcome |-> "raised",
        raised |-> [kind |-> "InsufficientLiquidity", attempt |-> n],
        attempt |-> n, total_drift_bps |-> drift,
        base_price_ref |-> ref, last_err |-> err]
  ELSE LET ref2 == IF ref = NoPrice THEN h[n].price ELSE ref
           e == [kind |-> h[n].result, attempt |-> n]
       IN IF h[n].result = "fill"
          THEN [outcome |-> "returned", raised |-> NoErr, attempt |-> n,
                total_drift_bps |-> drift, base_price_ref |-> ref2,
                last_err |-> err]
          ELSE IF drift_would_exceed(drift, p.per_attempt_drift_bps,
                                     p.max_total_drift_bps)
          THEN [outcome |-> "raised", raised |-> e, attempt |-> n,
                total_drift_bps |-> drift, base_price_ref |-> ref2,
                last_err |-> e]
          ELSE RunAloneFrom(p, h, n + 1, drift + p.per_attempt_drift_bps,
                            ref2, e)

RunAlone(p, h) == RunAloneFrom(p, h, 1, 0, NoPrice, NoErr)

\* ------------------------------------------------- bot.py: retry_on_error
MaxRoRetries == 3
RoDelays == {1, 2}
\* what one invocation of func does: it returns a value, or raises a Binance
\* exception that names a rate limit, another Binance exception, or any
\* other Exception
RoValues == {"data", "empty"}
RoFailures == {"RateLimit", "Binance", "Other"}
NotRo == <<fok_vars, pf_vars, qz_vars, cc_vars, sw_vars, ms_vars, web_vars>>

RECURSIVE Pow2(_)
Pow2(n) == IF n = 0 THEN 1 ELSE 2 * Pow2(n - 1)

InitRetry ==
  /\ FokIdle
  /\ PfIdle
  /\ QzIdle
  /\ CcIdle
  /\ SwIdle
  /\ MsIdle
  /\ WebIdle
  /\ ro_pc = "loop"
  /\ ro_max_retries \in 0..MaxRoRetries
  /\ ro_delay \in RoDelays
  /\ ro_calls = 0
  /\ ro_hist = <<>>
  /\ ro_slept = 0
  /\ ro_outcome = "running"
  /\ ro_value = "none"

\* lines 920-922: the invocation returns and its value is returned
RoFuncReturns ==
  /\ ro_pc = "loop"
  /\ ro_calls < ro_max_retries
  /\ \E v \in RoValues :
       /\ ro_hist' = Append(ro_hist, v)
       /\ ro_value' = v
  /\ ro_calls' = ro_calls + 1
  /\ ro_outcome' = "returned"
  /\ ro_pc' = "done"
  /\ UNCHANGED <<ro_max_retries, ro_delay, ro_slept, NotRo>>

\* lines 923-927: rate limit, the wait doubles with every attempt
RoFuncRateLimited ==
  /\ ro_pc = "loop"
  /\ ro_calls < ro_max_retries
  /\ ro_hist' = Append(ro_hist, "RateLimit")
  /\ ro_slept' = ro_slept + ro_delay * Pow2(ro_calls)
  /\ ro_calls' = ro_calls + 1
  /\ UNCHANGED <<ro_pc, ro_max_retries, ro_delay, ro_outcome, ro_value, NotRo>>

\* mutant: the loop runs once more than max_retries
RoFuncFails_OneMore ==
  /\ ro_pc = "loop"
  /\ ro_calls <= ro_max_retries
  /\ \E k \in {"Binance", "Other"} : ro_hist' = Append(ro_hist, k)
  /\ ro_slept' = ro_slept + (IF ro_calls < ro_max_retries - 1 THEN ro_delay ELSE 0)
  /\ ro_calls' = ro_calls + 1
  /\ UNCHANGED <<ro_pc, ro_max_retries, ro_delay, ro_outcome, ro_value, NotRo>>

\* lines 928-935: another Binance error or any other Exception; the pause is
\* skipped after the last attempt
RoFuncFails ==
  /\ ro_pc = "loop"
  /\ ro_calls < ro_max_retries
  /\ \E k \in {"Binance", "Other"} : ro_hist' = Append(ro_hist, k)
  /\ ro_slept' = ro_slept + (IF ro_calls < ro_max_retries - 1 THEN ro_delay ELSE 0)
  /\ ro_calls' = ro_calls + 1
  /\ UNCHANGED <<ro_pc, ro_max_retries, ro_delay, ro_outcome, ro_value, NotRo>>

\* line 937: the range is used up
RoRaiseRuntimeError ==
  /\ ro_pc = "loop"
  /\ ro_calls >= ro_max_retries
  /\ ro_outcome' = "RuntimeError"
  /\ ro_pc' = "done"
  /\ UNCHANGED <<ro_max_retries, ro_delay, ro_calls, ro_hist, ro_slept,
                 ro_value, NotRo>>

NextRetry ==
  \/ RoFuncReturns
  \/ RoFuncRateLimited
  \/ RoFuncFails
  \/ RoRaiseRuntimeError

SpecRetry == InitRetry /\ [][NextRetry]_vars

\* ------------------------------ bot.py: AssetSwitcher and the trading loop
\* time in whole seconds
MaxTime == 24
min_switch_interval == 10
\* base_asset and quote_asset of the symbol
Assets == {"BTC", "USDT"}
NotSw == <<fok_vars, pf_vars, qz_vars, cc_vars, ro_vars, ms_vars, web_vars>>

\* mutant: only the assets are compared
need_to_switch_NoCooldown(current_time, last, current_asset, should_hold) ==
  current_asset # should_hold

\* AssetSwitcher.need_to_switch
need_to_switch(current_time, last, current_asset, should_hold) ==
  IF current_time - last < min_switch_interval THEN FALSE
  ELSE current_asset # should_hold

\* line 568: last_switch_time is the time of construction
InitSwitch ==
  /\ FokIdle
  /\ PfIdle
  /\ QzIdle
  /\ CcIdle
  /\ RoIdle
  /\ MsIdle
  /\ WebIdle
  /\ sw_pc = "start"
  /\ sw_now = 0
  /\ sw_last_switch_time = 0
  /\ sw_current \in Assets
  /\ sw_should \in Assets
  /\ sw_order_gap = NoGap
  /\ sw_probe = NoProbe

\* the clock moves on, at any point of the loop
SwTick ==
  /\ sw_now < MaxTime
  /\ sw_now' = sw_now + 1
  /\ UNCHANGED <<sw_pc, sw_last_switch_time, sw_current, sw_should,
                 sw_order_gap, sw_probe, NotSw>>

\* lines 1080-1222: balances and strategy give the asset held and the asset
\* to hold
SwCycleBegin ==
  /\ sw_pc = "start"
  /\ sw_current' \in Assets
  /\ sw_should' \in Assets
  /\ sw_pc' = "cooldown"
  /\ UNCHANGED <<sw_now, sw_last_switch_time, sw_order_gap, sw_probe, NotSw>>

\* lines 1225-1230: inside the cooldown the cycle is skipped
SwCooldownSkip ==
  /\ sw_pc = "cooldown"
  /\ sw_now - sw_last_switch_time < min_switch_interval
  /\ sw_pc' = "start"
  /\ UNCHANGED <<sw_now, sw_last_switch_time, sw_current, sw_should,
                 sw_order_gap, sw_probe, NotSw>>

SwCooldownPass ==
  /\ sw_pc = "cooldown"
  /\ ~(sw_now - sw_last_switch_time < min_switch_interval)
  /\ sw_pc' = "need"
  /\ UNCHANGED <<sw_now, sw_last_switch_time, sw_current, sw_should,
                 sw_order_gap, sw_probe, NotSw>>

\* lines 1242-1245
SwNeedSwitch ==
  /\ sw_pc = "need"
  /\ sw_pc' = (IF need_to_switch(sw_now, sw_last_switch_time, sw_current, sw_should)
               THEN "execute" ELSE "start")
  /\ UNCHANGED <<sw_now, sw_last_switch_time, sw_current, sw_should,
                 sw_order_gap, sw_probe, NotSw>>

\* execute_switch returns False before any order (no client, amount too small)
SwNoOrder ==
  /\ sw_pc = "execute"
  /\ sw_pc' = "start"
  /\ UNCHANGED <<sw_now, sw_last_switch_time, sw_current, sw_should,
                 sw_order_gap, sw_probe, NotSw>>

\* lines 651 and 712: the market order is sent
SwOrderSent ==
  /\ sw_pc = "execute"
  /\ sw_order_gap' = sw_now - sw_last_switch_time
  /\ sw_pc' = "ordered"
  /\ UNCHANGED <<sw_now, sw_last_switch_time, sw_current, sw_should,
                 sw_probe, NotSw>>

\* lines 661 and 722 (675 and 736 after the retry): the order went through
SwOrderDone ==
  /\ sw_pc = "ordered"
  /\ sw_last_switch_time' = sw_now
  /\ sw_order_gap' = NoGap
  /\ sw_pc' = "start"
  /\ UNCHANGED <<sw_now, sw_current, sw_should, sw_probe, NotSw>>

\* lines 663-682 and 724-743: the order failed; last_switch_time stays
SwOrderFailed ==
  /\ sw_pc = "ordered"
  /\ sw_order_gap' = NoGap
  /\ sw_pc' = "start"
  /\ UNCHANGED <<sw_now, sw_last_switch_time, sw_current, sw_should,
                 sw_probe, NotSw>>

\* lines 666-674 and 727-735: the order is sent again with less precision
SwOrderRetried ==
  /\ sw_pc = "ordered"
  /\ sw_order_gap' = sw_now - sw_last_switch_time
  /\ sw_pc' = "reordered"
  /\ UNCHANGED <<sw_now, sw_last_switch_time, sw_current, sw_should,
                 sw_probe, NotSw>>

SwRetryDone ==
  /\ sw_pc = "reordered"
  /\ sw_last_switch_time' = sw_now
  /\ sw_order_gap' = NoGap
  /\ sw_pc' = "start"
  /\ UNCHANGED <<sw_now, sw_current, sw_should, sw_probe, NotSw>>

SwRetryFailed ==
  /\ sw_pc = "reordered"
  /\ sw_order_gap' = NoGap
  /\ sw_pc' = "start"
  /\ UNCHANGED <<sw_now, sw_last_switch_time, sw_current, sw_should,
                 sw_probe, NotSw>>

\* need_to_switch called by itself, at any time and for any pair of assets
SwProbeNeedToSwitch ==
  /\ sw_pc = "start"
  /\ \E c \in Assets, h \in Assets :
       sw_probe' = [elapsed |-> sw_now - sw_last_switch_time,
                    differ |-> c # h,
                    result |-> need_to_switch(sw_now, sw_last_switch_time, c, h),
                    made |-> TRUE]
  /\ sw_pc' = "probed"
  /\ UNCHANGED <<sw_now, sw_last_switch_time, sw_current, sw_should,
                 sw_order_gap, NotSw>>

SwProbeDone ==
  /\ sw_pc = "probed"
  /\ sw_probe' = NoProbe
  /\ sw_pc' = "start"
  /\ UNCHANGED <<sw_now, sw_last_switch_time, sw_current, sw_should,
                 sw_order_gap, NotSw>>

NextSwitch ==
  \/ SwTick
  \/ SwCycleBegin
  \/ SwCooldownSkip
  \/ SwCooldownPass
  \/ SwNeedSwitch
  \/ SwNoOrder
  \/ SwOrderSent
  \/ SwOrderDone
  \/ SwOrderFailed
  \/ SwOrderRetried
  \/ SwRetryDone
  \/ SwRetryFailed
  \/ SwProbeNeedToSwitch
  \/ SwProbeDone

SpecSwitch == InitSwitch /\ [][NextSwitch]_vars

\* -------------------------------- indicators.py: _determine_market_state
\* atr_percent is counted in tenths of a percent, rsi in whole points; NaN
\* stands for the float that compares False with everything
NaN == -1
AtrFlat == 4
RsiLow == 45
RsiHigh == 55
AtrChoices == {3, 4, 5, NaN}
RsiChoices == {44, 45, 50, 55, 56, NaN}
Trends == {"long", "short", "sideways"}
Signals == {"long", "short", "none"}
MarketStates == {"flet", "buy", "sell", "no_trade"}
NotMs == <<fok_vars, pf_vars, qz_vars, cc_vars, ro_vars, sw_vars, web_vars>>

\* the comparisons of floats
FLt(a, b) == a # NaN /\ b # NaN /\ a < b
FLe(a, b) == a # NaN /\ b # NaN /\ a <= b

\* mutant: the 1h signal alone decides the direction
determine_market_state_SignalOnly(atr_percent, rsi, trend_4h, signal_1h) ==
  IF FLt(atr_percent, AtrFlat) /\ FLe(RsiLow, rsi) /\ FLe(rsi, RsiHigh)
     /\ trend_4h = "sideways"
  THEN "flet"
  ELSE IF FLe(AtrFlat, atr_percent) /\ (FLt(RsiHigh, rsi) \/ FLt(rsi, RsiLow))
          /\ trend_4h # "sideways"
  THEN IF signal_1h = "long" THEN "buy"
       ELSE IF signal_1h = "short" THEN "sell"
       ELSE "no_trade"
  ELSE "no_trade"

\* IndicatorBasedStrategy._determine_market_state, lines 126-147
determine_market_state(atr_percent, rsi, trend_4h, signal_1h) ==
  IF FLt(atr_percent, AtrFlat) /\ FLe(RsiLow, rsi) /\ FLe(rsi, RsiHigh)
     /\ trend_4h = "sideways"
  THEN "flet"
  ELSE IF FLe(AtrFlat, atr_percent) /\ (FLt(RsiHigh, rsi) \/ FLt(rsi, RsiLow))
          /\ trend_4h # "sideways"
  THEN IF signal_1h = "long" /\ trend_4h = "long" THEN "buy"
       ELSE IF signal_1h = "short" /\ trend_4h = "short" THEN "sell"
       ELSE "no_trade"
  ELSE "no_trade"

InitMarket ==
  /\ FokIdle
  /\ PfIdle
  /\ QzIdle
  /\ CcIdle
  /\ RoIdle
  /\ SwIdle
  /\ WebIdle
  /\ ms_pc = "start"
  /\ ms_atr_percent \in AtrChoices
  /\ ms_rsi \in RsiChoices
  /\ ms_trend_4h \in Trends
  /\ ms_signal_1h \in Signals
  /\ ms_market_state = "unset"
  /\ ms_should_hold_base = FALSE

\* lines 92-114: analyze calls _determine_market_state and derives
\* should_hold_base from it
MsAnalyze ==
  /\ ms_pc = "start"
  /\ ms_market_state' =
       determine_market_state(ms_atr_percent, ms_rsi, ms_trend_4h, ms_signal_1h)
  /\ ms_should_hold_base' = (ms_market_state' = "buy")
  /\ ms_pc' = "done"
  /\ UNCHANGED <<ms_atr_percent, ms_rsi, ms_trend_4h, ms_signal_1h, NotMs>>

NextMarket == MsAnalyze

SpecMarket == InitMarket /\ [][NextMarket]_vars


\* ---------------------------------------------- bot.py: the trading loop
\* the cycles one run of the loop is followed for
MaxCycles == 3
\* the seconds between the clock readings of two cycles
TlTicks == {0, 5, 10}
StrategyTypes == {"MA_RSI_ATR", "SIMPLE_MA"}
\* indicators.py, lines 95-114: the keys of the dict analyze returns
AnalysisKeys == {"1h", "4h", "market_state", "should_hold_base", "recommendation"}
\* bot.py, lines 1127-1155: the keys of analysis the loop reads
AnalysisKeysRead == {"should_hold_base", "market_state", "30m", "1h", "4h"}
NotTl == <<fok_vars, pf_vars, qz_vars, cc_vars, ro_vars, sw_vars, ms_vars,
           svc_vars>>

\* line 1178: whether the classic MA strategy runs
RunsClassicMa(strategy_type, market_state) ==
  strategy_type # "MA_RSI_ATR" \/ market_state = "no_trade"

\* lines 794, 1033, 1041-1049 and 568: the thread is at the head of its while
\* loop; an indicator strategy that could not be built leaves SIMPLE_MA
InitLoop ==
  /\ FokIdle
  /\ PfIdle
  /\ QzIdle
  /\ CcIdle
  /\ RoIdle
  /\ SwIdle
  /\ MsIdle
  /\ SvcIdle
  /\ tl_pc = "while"
  /\ tl_cycle = 0
  /\ tl_now = 0
  /\ tl_strategy_type \in StrategyTypes
  /\ tl_indicator_strategy \in BOOLEAN
  /\ tl_strategy_type = "MA_RSI_ATR" => tl_indicator_strategy
  /\ tl_market_state = "no_trade"
  /\ tl_current = "USDT"
  /\ tl_should = "USDT"
  /\ tl_switches_count = 0
  /\ tl_error_count = 0
  /\ tl_last_switch_time = 0
  /\ tl_analysis = "none"
  /\ tl_orders = 0
  /\ tl_slept = "none"
  /\ tl_success = "none"
  /\ tl_count_at_begin = 0

\* lines 1054-1064 and health_check, lines 995-1017: a cycle begins; the
\* health check leaves error_count, takes one off or adds one
TlCycleBegin ==
  /\ tl_pc = "while"
  /\ tl_cycle < MaxCycles
  /\ tl_cycle' = tl_cycle + 1
  /\ \E d \in TlTicks : tl_now' = tl_now + d
  /\ \E h \in {"not_due", "passed", "failed"} :
       tl_error_count' =
         IF h = "passed" THEN (IF tl_error_count > 0 THEN tl_error_count - 1 ELSE 0)
         ELSE IF h = "failed" THEN tl_error_count + 1
         ELSE tl_error_count
  /\ tl_analysis' = "none"
  /\ tl_orders' = 0
  /\ tl_slept' = "none"
  /\ tl_success' = "none"
  /\ tl_count_at_begin' = tl_switches_count
  /\ tl_pc' = "data"
  /\ UNCHANGED <<tl_strategy_type, tl_indicator_strategy, tl_market_state,
                 tl_current, tl_should, tl_switches_count, tl_last_switch_time,
                 NotTl>>

\* lines 1067-1115: prices and balances are read, the asset held is derived
\* and the locals of the strategy get their defaults
TlData ==
  /\ tl_pc = "data"
  /\ tl_current' \in Assets
  /\ tl_should' = "USDT"
  /\ tl_market_state' = "no_trade"
  /\ tl_pc' = "strategy"
  /\ UNCHANGED <<tl_cycle, tl_now, tl_strategy_type, tl_indicator_strategy,
                 tl_switches_count, tl_error_count, tl_last_switch_time,
                 tl_analysis, tl_orders, tl_slept, tl_success,
                 tl_count_at_begin, NotTl>>

\* lines 1067-1069 with 1398-1412: reading the market raised; a rate limit
\* is waited out, anything else counts as an error
TlDataRaises ==
  /\ tl_pc = "data"
  /\ \E k \in {"RateLimit", "Binance", "Other"} :
       tl_error_count' = IF k = "RateLimit" THEN tl_error_count
                         ELSE tl_error_count + 1
  /\ tl_slept' = "short"
  /\ tl_pc' = "while"
  /\ UNCHANGED <<tl_cycle, tl_now, tl_strategy_type, tl_indicator_strategy,
                 tl_market_state, tl_current, tl_should, tl_switches_count,
                 tl_last_switch_time, tl_analysis, tl_orders, tl_success,
                 tl_count_at_begin, NotTl>>

\* lines 1098-1107: the balance is under the minimum
TlLowBalance ==
  /\ tl_pc = "data"
  /\ tl_slept' = "check_interval"
  /\ tl_pc' = "while"
  /\ UNCHANGED <<tl_cycle, tl_now, tl_strategy_type, tl_indicator_strategy,
                 tl_market_state, tl_current, tl_should, tl_switches_count,
                 tl_error_count, tl_last_switch_time, tl_analysis, tl_orders,
                 tl_success, tl_count_at_begin, NotTl>>

\* lines 1117-1168 with 1173-1175: analyze returns a market state; the locals
\* take it over; reading a key the dict lacks raises KeyError, which the
\* except clause turns into SIMPLE_MA; without it flet and no_trade sleep
\* and end the cycle
TlAnalyze ==
  /\ tl_pc = "strategy"
  /\ tl_strategy_type = "MA_RSI_ATR"
  /\ tl_indicator_strategy
  /\ \E s \in MarketStates :
       /\ tl_analysis' = s
       /\ tl_market_state' = s
       /\ tl_should' = (IF s = "buy" THEN "BTC" ELSE "USDT")
       /\ IF AnalysisKeysRead \subseteq AnalysisKeys
          THEN /\ tl_strategy_type' = tl_strategy_type
               /\ IF s \in {"flet", "no_trade"}
                  THEN tl_slept' = "check_interval" /\ tl_pc' = "while"
                  ELSE /\ tl_slept' = tl_slept
                       /\ tl_pc' = (IF RunsClassicMa(tl_strategy_type', s)
                                    THEN "ma" ELSE "cooldown")
          ELSE /\ tl_strategy_type' = "SIMPLE_MA"
               /\ tl_slept' = tl_slept
               /\ tl_pc' = (IF RunsClassicMa(tl_strategy_type', s)
                            THEN "ma" ELSE "cooldown")
  /\ UNCHANGED <<tl_cycle, tl_now, tl_indicator_strategy, tl_current,
                 tl_switches_count, tl_error_count, tl_last_switch_time,
                 tl_orders, tl_success, tl_count_at_begin, NotTl>>

\* lines 1122 and 1169-1172: a timeframe has 25 candles or fewer
TlAnalyzeInsufficient ==
  /\ tl_pc = "strategy"
  /\ tl_strategy_type = "MA_RSI_ATR"
  /\ tl_indicator_strategy
  /\ tl_strategy_type' = "SIMPLE_MA"
  /\ tl_pc' = (IF RunsClassicMa(tl_strategy_type', tl_market_state)
               THEN "ma" ELSE "cooldown")
  /\ UNCHANGED <<tl_cycle, tl_now, tl_indicator_strategy, tl_market_state,
                 tl_current, tl_should, tl_switches_count, tl_error_count,
                 tl_last_switch_time, tl_analysis, tl_orders, tl_slept,
                 tl_success, tl_count_at_begin, NotTl>>

\* lines 1124 and 1173-1175: analyze itself raised
TlAnalyzeRaises ==
  /\ tl_pc = "strategy"
  /\ tl_strategy_type = "MA_RSI_ATR"
  /\ tl_indicator_strategy
  /\ tl_strategy_type' = "SIMPLE_MA"
  /\ tl_analysis' = "raised"
  /\ tl_pc' = (IF RunsClassicMa(tl_strategy_type', tl_market_state)
               THEN "ma" ELSE "cooldown")
  /\ UNCHANGED <<tl_cycle, tl_now, tl_indicator_strategy, tl_market_state,
                 tl_current, tl_should, tl_switches_count, tl_error_count,
                 tl_last_switch_time, tl_orders, tl_slept, tl_success,
                 tl_count_at_begin, NotTl>>

\* line 1117 is False: no analysis in this cycle
TlNoAnalysis ==
  /\ tl_pc = "strategy"
  /\ ~(tl_strategy_type = "MA_RSI_ATR" /\ tl_indicator_strategy)
  /\ tl_pc' = (IF RunsClassicMa(tl_strategy_type, tl_market_state)
               THEN "ma" ELSE "cooldown")
  /\ UNCHANGED <<tl_cycle, tl_now, tl_strategy_type, tl_indicator_strategy,
                 tl_market_state, tl_current, tl_should, tl_switches_count,
                 tl_error_count, tl_last_switch_time, tl_analysis, tl_orders,
                 tl_slept, tl_success, tl_count_at_begin, NotTl>>

\* lines 1180-1205: the moving averages say which asset to hold and the
\* spread passes the noise filter
TlMaSignal ==
  /\ tl_pc = "ma"
  /\ tl_should' \in Assets
  /\ tl_pc' = "cooldown"
  /\ UNCHANGED <<tl_cycle, tl_now, tl_strategy_type, tl_indicator_strategy,
                 tl_market_state, tl_current, tl_switches_count,
                 tl_error_count, tl_last_switch_time, tl_analysis, tl_orders,
                 tl_slept, tl_success, tl_count_at_begin, NotTl>>

\* lines 1206-1214: the spread is under MA_SPREAD_BPS, or a moving average
\* is missing
TlMaFiltered ==
  /\ tl_pc = "ma"
  /\ \E missing \in BOOLEAN :
       tl_should' \in (IF missing THEN {tl_should} ELSE Assets)
  /\ tl_slept' = "check_interval"
  /\ tl_pc' = "while"
  /\ UNCHANGED <<tl_cycle, tl_now, tl_strategy_type, tl_indicator_strategy,
                 tl_market_state, tl_current, tl_switches_count,
                 tl_error_count, tl_last_switch_time, tl_analysis, tl_orders,
                 tl_success, tl_count_at_begin, NotTl>>

\* lines 1224-1230: inside the cooldown the cycle is skipped
TlCooldownSkip ==
  /\ tl_pc = "cooldown"
  /\ tl_now - tl_last_switch_time < min_switch_interval
  /\ tl_slept' = "check_interval"
  /\ tl_pc' = "while"
  /\ UNCHANGED <<tl_cycle, tl_now, tl_strategy_type, tl_indicator_strategy,
                 tl_market_state, tl_current, tl_should, tl_switches_count,
                 tl_error_count, tl_last_switch_time, tl_analysis, tl_orders,
                 tl_success, tl_count_at_begin, NotTl>>

\* lines 1242-1245: need_to_switch decides
TlNeedSwitch ==
  /\ tl_pc = "cooldown"
  /\ ~(tl_now - tl_last_switch_time < min_switch_interval)
  /\ tl_pc' = (IF need_to_switch(tl_now, tl_last_switch_time, tl_current, tl_should)
               THEN "execute" ELSE "end")
  /\ UNCHANGED <<tl_cycle, tl_now, tl_strategy_type, tl_indicator_strategy,
                 tl_market_state, tl_current, tl_should, tl_switches_count,
                 tl_error_count, tl_last_switch_time, tl_analysis, tl_orders,
                 tl_slept, tl_success, tl_count_at_begin, NotTl>>

\* execute_switch returns False before any order; lines 1288-1296
TlNoOrder ==
  /\ tl_pc = "execute"
  /\ tl_success' = "False"
  /\ tl_error_count' = tl_error_count + 1
  /\ tl_pc' = "end"
  /\ UNCHANGED <<tl_cycle, tl_now, tl_strategy_type, tl_indicator_strategy,
                 tl_market_state, tl_current, tl_should, tl_switches_count,
                 tl_last_switch_time, tl_analysis, tl_orders, tl_slept,
                 tl_count_at_begin, NotTl>>

\* lines 651 and 712: the market order is sent
TlOrderSent ==
  /\ tl_pc = "execute"
  /\ tl_orders' = tl_orders + 1
  /\ tl_pc' = "ordered"
  /\ UNCHANGED <<tl_cycle, tl_now, tl_strategy_type, tl_indicator_strategy,
                 tl_market_state, tl_current, tl_should, tl_switches_count,
                 tl_error_count, tl_last_switch_time, tl_analysis, tl_slept,
                 tl_success, tl_count_at_begin, NotTl>>

\* lines 661 and 722, then 1268-1274: the order call returned, the switcher
\* stamps last_switch_time and returns True, the loop counts the switch
TlOrderDone ==
  /\ tl_pc = "ordered"
  /\ tl_last_switch_time' = tl_now
  /\ tl_success' = "True"
  /\ tl_switches_count' = tl_switches_count + 1
  /\ tl_pc' = "balances"
  /\ UNCHANGED <<tl_cycle, tl_now, tl_strategy_type, tl_indicator_strategy,
                 tl_market_state, tl_current, tl_should, tl_error_count,
                 tl_analysis, tl_orders, tl_slept, tl_count_at_begin, NotTl>>


\* mutant: a failed switch is counted as a switch
TlOrderFailed_Counted ==
  /\ tl_pc = "ordered"
  /\ tl_success' = "False"
  /\ tl_error_count' = tl_error_count + 1
  /\ tl_switches_count' = tl_switches_count + 1
  /\ tl_pc' = "end"
  /\ UNCHANGED <<tl_cycle, tl_now, tl_strategy_type, tl_indicator_strategy,
                 tl_market_state, tl_current, tl_should,
                 tl_last_switch_time, tl_analysis, tl_orders, tl_slept,
                 tl_count_at_begin, NotTl>>

\* lines 663-682 and 724-743, then 1288-1296: the order call raised and
\* execute_switch returned False
TlOrderFailed ==
  /\ tl_pc = "ordered"
  /\ tl_success' = "False"
  /\ tl_error_count' = tl_error_count + 1
  /\ tl_pc' = "end"
  /\ UNCHANGED <<tl_cycle, tl_now, tl_strategy_type, tl_indicator_strategy,
                 tl_market_state, tl_current, tl_should, tl_switches_count,
                 tl_last_switch_time, tl_analysis, tl_orders, tl_slept,
                 tl_count_at_begin, NotTl>>

\* lines 666-674 and 727-735: the order is sent again with less precision
TlOrderRetried ==
  /\ tl_pc = "ordered"
  /\ tl_orders' = tl_orders + 1
  /\ tl_pc' = "reordered"
  /\ UNCHANGED <<tl_cycle, tl_now, tl_strategy_type, tl_indicator_strategy,
                 tl_market_state, tl_current, tl_should, tl_switches_count,
                 tl_error_count, tl_last_switch_time, tl_analysis, tl_slept,
                 tl_success, tl_count_at_begin, NotTl>>

\* lines 675 and 736, then 1268-1274
TlRetryDone ==
  /\ tl_pc = "reordered"
  /\ tl_last_switch_time' = tl_now
  /\ tl_success' = "True"
  /\ tl_switches_count' = tl_switches_count + 1
  /\ tl_pc' = "balances"
  /\ UNCHANGED <<tl_cycle, tl_now, tl_strategy_type, tl_indicator_strategy,
                 tl_market_state, tl_current, tl_should, tl_error_count,
                 tl_analysis, tl_orders, tl_slept, tl_count_at_begin, NotTl>>

\* lines 676-682 and 737-743, then 1288-1296
TlRetryFailed ==
  /\ tl_pc = "reordered"
  /\ tl_success' = "False"
  /\ tl_error_count' = tl_error_count + 1
  /\ tl_pc' = "end"
  /\ UNCHANGED <<tl_cycle, tl_now, tl_strategy_type, tl_indicator_strategy,
                 tl_market_state, tl_current, tl_should, tl_switches_count,
                 tl_last_switch_time, tl_analysis, tl_orders, tl_slept,
                 tl_count_at_begin, NotTl>>

\* lines 1276-1287: the balances after the switch are read
TlNewBalances ==
  /\ tl_pc = "balances"
  /\ tl_pc' = "end"
  /\ UNCHANGED <<tl_cycle, tl_now, tl_strategy_type, tl_indicator_strategy,
                 tl_market_state, tl_current, tl_should, tl_switches_count,
                 tl_error_count, tl_last_switch_time, tl_analysis, tl_orders,
                 tl_slept, tl_success, tl_count_at_begin, NotTl>>

\* line 1280 with 1398-1412: reading them raised
TlNewBalancesRaises ==
  /\ tl_pc = "balances"
  /\ \E k \in {"RateLimit", "Binance", "Other"} :
       tl_error_count' = IF k = "RateLimit" THEN tl_error_count
                         ELSE tl_error_count + 1
  /\ tl_slept' = "short"
  /\ tl_pc' = "while"
  /\ UNCHANGED <<tl_cycle, tl_now, tl_strategy_type, tl_indicator_strategy,
                 tl_market_state, tl_current, tl_should, tl_switches_count,
                 tl_last_switch_time, tl_analysis, tl_orders, tl_success,
                 tl_count_at_begin, NotTl>>

\* lines 1390-1396: the state is saved and the cycle sleeps CHECK_INTERVAL
TlEndCycle ==
  /\ tl_pc = "end"
  /\ tl_slept' = "check_interval"
  /\ tl_pc' = "while"
  /\ UNCHANGED <<tl_cycle, tl_now, tl_strategy_type, tl_indicator_strategy,
                 tl_market_state, tl_current, tl_should, tl_switches_count,
                 tl_error_count, tl_last_switch_time, tl_analysis, tl_orders,
                 tl_success, tl_count_at_begin, NotTl>>

NextLoop ==
  \/ TlCycleBegin
  \/ TlData
  \/ TlDataRaises
  \/ TlLowBalance
  \/ TlAnalyze
  \/ TlAnalyzeInsufficient
  \/ TlAnalyzeRaises
  \/ TlNoAnalysis
  \/ TlMaSignal
  \/ TlMaFiltered
  \/ TlCooldownSkip
  \/ TlNeedSwitch
  \/ TlNoOrder
  \/ TlOrderSent
  \/ TlOrderDone
  \/ TlOrderFailed
  \/ TlOrderRetried
  \/ TlRetryDone
  \/ TlRetryFailed
  \/ TlNewBalances
  \/ TlNewBalancesRaises
  \/ TlEndCycle

SpecLoop == InitLoop /\ [][NextLoop]_vars


\* ------------------------- bot.py: /start, /stop and the loop's threads
\* the /start and /stop requests one process is followed for
MaxRequests == 3
NotSvc == <<fok_vars, pf_vars, qz_vars, cc_vars, ro_vars, sw_vars, ms_vars,
            tl_vars>>
\* what an earlier process may have left in state.json
SavedStates ==
  [status : {"running", "stopped"}, strategy_type : StrategyTypes]

\* save_state, lines 815-821: bot_status is written to state.json
Saved(status, strategy_type) ==
  [status |-> status, strategy_type |-> strategy_type]

\* load_state, lines 804-813: bot_status.update(data) if state.json exists
Loaded(file, current) == IF file = NoFile THEN current ELSE file

\* the threads inside the body of a cycle
InCycle == {t \in Threads : svc_th[t] \in {"cycle", "rest"}}
\* the threads that have started and not left their while loop
InLoop == {t \in Threads : svc_th[t] \notin {"unborn", "left"}}

\* lines 783-802 and the auto-start of lines 1581-1594: with API keys the
\* import calls init_client, sets running and starts the first thread
InitService ==
  /\ FokIdle
  /\ PfIdle
  /\ QzIdle
  /\ CcIdle
  /\ RoIdle
  /\ SwIdle
  /\ MsIdle
  /\ TlIdle
  /\ svc_api_keys \in BOOLEAN
  /\ svc_imported \in BOOLEAN
  /\ svc_running = svc_api_keys
  /\ svc_th = [t \in Threads |->
                 IF t = 1 /\ svc_api_keys THEN "entry" ELSE "unborn"]
  /\ svc_start_pc = "idle"
  /\ svc_n_req = 0
  /\ svc_last_req = "none"
  /\ svc_inits = (IF svc_api_keys THEN 1 ELSE 0)
  /\ svc_status \in (IF svc_api_keys THEN {"connected", "connection_error"}
                     ELSE {"idle"})
  /\ svc_strategy_type = "MA_RSI_ATR"
  /\ svc_indicator_strategy = FALSE
  /\ svc_file \in {NoFile} \cup SavedStates
  /\ svc_fell_back = [t \in Threads |-> FALSE]
  /\ svc_reanalysed = [t \in Threads |-> FALSE]


\* mutant: /start initialises the client before it looks at running
SvcStartAlreadyRunning_Reinit ==
  /\ svc_start_pc = "idle"
  /\ svc_n_req < MaxRequests
  /\ svc_running
  /\ svc_n_req' = svc_n_req + 1
  /\ svc_last_req' = "start"
  /\ svc_inits' = svc_inits + 1
  /\ svc_status' = "connected"
  /\ UNCHANGED <<svc_running, svc_api_keys, svc_imported, svc_th, svc_start_pc,
                 svc_strategy_type, svc_indicator_strategy,
                 svc_file, svc_fell_back, svc_reanalysed, NotSvc>>

\* start, lines 1443-1445: running is set, the handler returns
SvcStartAlreadyRunning ==
  /\ svc_start_pc = "idle"
  /\ svc_n_req < MaxRequests
  /\ svc_running
  /\ svc_n_req' = svc_n_req + 1
  /\ svc_last_req' = "start"
  /\ UNCHANGED <<svc_running, svc_api_keys, svc_imported, svc_th, svc_start_pc, svc_inits,
                 svc_status, svc_strategy_type, svc_indicator_strategy,
                 svc_file, svc_fell_back, svc_reanalysed, NotSvc>>

\* start, lines 1447-1450: no API keys, the handler returns
SvcStartNoKeys ==
  /\ svc_start_pc = "idle"
  /\ svc_n_req < MaxRequests
  /\ ~svc_running
  /\ ~svc_api_keys
  /\ svc_n_req' = svc_n_req + 1
  /\ svc_last_req' = "start"
  /\ UNCHANGED <<svc_running, svc_api_keys, svc_imported, svc_th, svc_start_pc, svc_inits,
                 svc_status, svc_strategy_type, svc_indicator_strategy,
                 svc_file, svc_fell_back, svc_reanalysed, NotSvc>>

\* start, lines 1443-1448 with init_client, lines 826-858: running is not
\* set, the client is initialised
SvcStartInit ==
  /\ svc_start_pc = "idle"
  /\ svc_n_req < MaxRequests
  /\ ~svc_running
  /\ svc_api_keys
  /\ \E t \in Threads : svc_th[t] = "unborn"
  /\ svc_n_req' = svc_n_req + 1
  /\ svc_last_req' = "start"
  /\ svc_inits' = svc_inits + 1
  /\ svc_status' \in {"connected", "connection_error"}
  /\ svc_start_pc' = "set"
  /\ UNCHANGED <<svc_running, svc_api_keys, svc_imported, svc_th, svc_strategy_type,
                 svc_indicator_strategy, svc_file, svc_fell_back,
                 svc_reanalysed, NotSvc>>

\* start, lines 1452-1454
SvcStartSet ==
  /\ svc_start_pc = "set"
  /\ svc_running' = TRUE
  /\ svc_status' = "running"
  /\ svc_file' = Saved(svc_status', svc_strategy_type)
  /\ svc_start_pc' = "spawn"
  /\ UNCHANGED <<svc_api_keys, svc_imported, svc_th, svc_n_req, svc_last_req, svc_inits,
                 svc_strategy_type, svc_indicator_strategy, svc_fell_back,
                 svc_reanalysed, NotSvc>>

\* start, lines 1456-1459: the new thread is started
SvcStartSpawn ==
  /\ svc_start_pc = "spawn"
  /\ \E t \in Threads :
       /\ svc_th[t] = "unborn"
       /\ \A u \in Threads : svc_th[u] = "unborn" => t <= u
       /\ svc_th' = [svc_th EXCEPT ![t] = "entry"]
  /\ svc_start_pc' = "idle"
  /\ UNCHANGED <<svc_running, svc_api_keys, svc_imported, svc_n_req, svc_last_req,
                 svc_inits, svc_status, svc_strategy_type,
                 svc_indicator_strategy, svc_file, svc_fell_back,
                 svc_reanalysed, NotSvc>>

\* stop, lines 1461-1468
SvcStop ==
  /\ svc_n_req < MaxRequests
  /\ svc_n_req' = svc_n_req + 1
  /\ svc_last_req' = "stop"
  /\ svc_running' = FALSE
  /\ svc_status' = "stopped"
  /\ svc_file' = Saved(svc_status', svc_strategy_type)
  /\ UNCHANGED <<svc_api_keys, svc_imported, svc_th, svc_start_pc, svc_inits,
                 svc_strategy_type, svc_indicator_strategy, svc_fell_back,
                 svc_reanalysed, NotSvc>>

\* trading_loop, lines 1026-1029: a thread that finds running False sets it
SvcEnter(t) ==
  /\ svc_th[t] = "entry"
  /\ svc_running' = (IF ~svc_running THEN TRUE ELSE svc_running)
  /\ svc_th' = [svc_th EXCEPT ![t] = "setup"]
  /\ UNCHANGED <<svc_api_keys, svc_imported, svc_start_pc, svc_n_req, svc_last_req,
                 svc_inits, svc_status, svc_strategy_type,
                 svc_indicator_strategy, svc_file, svc_fell_back,
                 svc_reanalysed, NotSvc>>

\* trading_loop, lines 1032-1052: load_state, then the indicator strategy is
\* built if there is none; without the class of line 33 that raises and
\* leaves SIMPLE_MA
SvcSetup(t) ==
  /\ svc_th[t] = "setup"
  /\ LET loaded == Loaded(svc_file, Saved(svc_status, svc_strategy_type))
     IN /\ svc_status' = loaded.status
        /\ IF svc_indicator_strategy \/ svc_imported
           THEN /\ svc_indicator_strategy' = TRUE
                /\ svc_strategy_type' = loaded.strategy_type
                /\ svc_fell_back' = svc_fell_back
           ELSE /\ svc_indicator_strategy' = FALSE
                /\ svc_strategy_type' = "SIMPLE_MA"
                /\ svc_fell_back' = [svc_fell_back EXCEPT ![t] = TRUE]
  /\ svc_th' = [svc_th EXCEPT ![t] = "while"]
  /\ UNCHANGED <<svc_running, svc_api_keys, svc_imported, svc_start_pc, svc_n_req,
                 svc_last_req, svc_inits, svc_file, svc_reanalysed, NotSvc>>

\* trading_loop, line 1054: while running
SvcWhile(t) ==
  /\ svc_th[t] = "while"
  /\ svc_th' = [svc_th EXCEPT ![t] = IF svc_running THEN "cycle" ELSE "left"]
  /\ UNCHANGED <<svc_running, svc_api_keys, svc_imported, svc_start_pc, svc_n_req,
                 svc_last_req, svc_inits, svc_status, svc_strategy_type,
                 svc_indicator_strategy, svc_file, svc_fell_back,
                 svc_reanalysed, NotSvc>>

\* lines 1067-1107 with 1398-1412: the cycle ends before the strategy, on a
\* low balance or an exception; any exception but Binance's is saved
SvcCycleAbort(t) ==
  /\ svc_th[t] = "cycle"
  /\ \E k \in {"LowBalance", "Binance", "Other"} :
       /\ svc_status' = (IF k = "Other" THEN "error" ELSE svc_status)
       /\ svc_file' = (IF k = "Other" THEN Saved(svc_status', svc_strategy_type)
                       ELSE svc_file)
  /\ svc_th' = [svc_th EXCEPT ![t] = "while"]
  /\ UNCHANGED <<svc_running, svc_api_keys, svc_imported, svc_start_pc, svc_n_req,
                 svc_last_req, svc_inits, svc_strategy_type,
                 svc_indicator_strategy, svc_fell_back, svc_reanalysed,
                 NotSvc>>

\* lines 1117-1175: with MA_RSI_ATR and an indicator strategy the analysis
\* runs; too few candles, an exception of analyze and the KeyError of a key
\* analyze does not return all leave SIMPLE_MA
SvcCycleStrategy(t) ==
  /\ svc_th[t] = "cycle"
  /\ IF svc_strategy_type = "MA_RSI_ATR" /\ svc_indicator_strategy
     THEN /\ \E path \in {"insufficient", "raises", "returns"} :
               svc_strategy_type' =
                 IF path = "returns" /\ AnalysisKeysRead \subseteq AnalysisKeys
                 THEN svc_strategy_type ELSE "SIMPLE_MA"
          /\ svc_fell_back' =
               [svc_fell_back EXCEPT ![t] = @ \/ svc_strategy_type' = "SIMPLE_MA"]
          /\ svc_reanalysed' =
               [svc_reanalysed EXCEPT ![t] = @ \/ svc_fell_back[t]]
     ELSE UNCHANGED <<svc_strategy_type, svc_fell_back, svc_reanalysed>>
  /\ svc_th' = [svc_th EXCEPT ![t] = "rest"]
  /\ UNCHANGED <<svc_running, svc_api_keys, svc_imported, svc_start_pc, svc_n_req,
                 svc_last_req, svc_inits, svc_status, svc_indicator_strategy,
                 svc_file, NotSvc>>

\* lines 1206-1214 and 1224-1230: the cycle sleeps and continues
SvcCycleContinue(t) ==
  /\ svc_th[t] = "rest"
  /\ svc_th' = [svc_th EXCEPT ![t] = "while"]
  /\ UNCHANGED <<svc_running, svc_api_keys, svc_imported, svc_start_pc, svc_n_req,
                 svc_last_req, svc_inits, svc_status, svc_strategy_type,
                 svc_indicator_strategy, svc_file, svc_fell_back,
                 svc_reanalysed, NotSvc>>

\* lines 1390-1396: the cycle ends with status running, save_state and the
\* sleep
SvcCycleSave(t) ==
  /\ svc_th[t] = "rest"
  /\ svc_status' = "running"
  /\ svc_file' = Saved(svc_status', svc_strategy_type)
  /\ svc_th' = [svc_th EXCEPT ![t] = "while"]
  /\ UNCHANGED <<svc_running, svc_api_keys, svc_imported, svc_start_pc, svc_n_req,
                 svc_last_req, svc_inits, svc_strategy_type,
                 svc_indicator_strategy, svc_fell_back, svc_reanalysed,
                 NotSvc>>

\* the steps of thread t
SvcThread(t) ==
  \/ SvcEnter(t)
  \/ SvcSetup(t)
  \/ SvcWhile(t)
  \/ SvcCycleAbort(t)
  \/ SvcCycleStrategy(t)
  \/ SvcCycleContinue(t)
  \/ SvcCycleSave(t)

\* the steps of a /start handler past its checks
SvcStartGoesOn == SvcStartSet \/ SvcStartSpawn

NextService ==
  \/ SvcStartAlreadyRunning
  \/ SvcStartNoKeys
  \/ SvcStartInit
  \/ SvcStartSet
  \/ SvcStartSpawn
  \/ SvcStop
  \/ \E t \in Threads : SvcEnter(t)
  \/ \E t \in Threads : SvcSetup(t)
  \/ \E t \in Threads : SvcWhile(t)
  \/ \E t \in Threads : SvcCycleAbort(t)
  \/ \E t \in Threads : SvcCycleStrategy(t)
  \/ \E t \in Threads : SvcCycleContinue(t)
  \/ \E t \in Threads : SvcCycleSave(t)

SpecService == InitService /\ [][NextService]_vars

\* every started thread keeps being scheduled and a handler under way goes
\* on; requests may stop coming
FairService ==
  /\ InitService
  /\ [][NextService]_vars
  /\ \A t \in Threads : WF_vars(SvcThread(t))
  /\ WF_vars(SvcStartGoesOn)

\* ================================================================ claims
\* the depth of a list of levels over the indices idx
RECURSIVE SumQtyOver(_, _)
SumQtyOver(levels, idx) ==
  IF idx = {} THEN 0
  ELSE LET i == CHOOSE j \in idx : TRUE
       IN levels[i][2] + SumQtyOver(levels, idx \ {i})
TotalDepth(levels) == SumQtyOver(levels, DOMAIN levels)
DepthAtOrBelow(levels, p) == SumQtyOver(levels, {i \in DOMAIN levels : levels[i][1] <= p})
DepthAtOrAbove(levels, p) == SumQtyOver(levels, {i \in DOMAIN levels : levels[i][1] >= p})
PricesOf(levels) == {levels[i][1] : i \in DOMAIN levels}
SideLevels(b, s) == IF s = SIDE_BUY THEN b.asks ELSE b.bids
Ended == pc = "done"
RaisedLastErr == Ended /\ outcome = "raised" /\ raised.kind \in ExchangeErrKinds

\* C1: in every state of an execution total_drift_bps is at most
\* max_total_drift_bps, and once a budget check has found
\* total_drift_bps + per_attempt_drift_bps above max_total_drift_bps the loop
\* is left: every attempt started so far has made its submission and no
\* further one is started.
C1_DriftWithinBudget ==
  /\ total_drift_bps <= max_total_drift_bps
  /\ budget_break =>
       /\ pc \in {"after_loop", "done"}
       /\ n_book_fetch = attempt
       /\ n_submit = attempt
       /\ total_drift_bps + per_attempt_drift_bps > max_total_drift_bps

C1_Witness ==
  /\ Ended
  /\ budget_break
  /\ total_drift_bps > 0
  /\ attempt < max_retries

\* C2: an execution that ends by raising the last rejection (every
\* submission was rejected) has made min(max_retries,
\* max_total_drift_bps div per_attempt_drift_bps + 1) submissions; with 5 bps
\* per attempt, a ceiling of 12 bps and max_retries >= 4 that is three
\* submissions, and the loop is left by the budget check before a fourth.
C2_SubmissionsWhenAllRejected ==
  RaisedLastErr =>
    /\ n_submit = Min(max_retries, (max_total_drift_bps \div per_attempt_drift_bps) + 1)
    /\ (per_attempt_drift_bps = 5 /\ max_total_drift_bps = 12 /\ max_retries >= 4)
         => (n_submit = 3 /\ attempt = 3 /\ budget_break)

C2_Witness ==
  /\ RaisedLastErr
  /\ per_attempt_drift_bps = 5
  /\ max_total_drift_bps = 12
  /\ max_retries = 4
  /\ n_submit = 3

\* C3 (as claimed): the attempt that follows k drift-consuming rejections
\* prices with the margin slippage_bps + k * per_attempt_drift_bps, and for an
\* unchanged order book the BUY price is strictly above (SELL: strictly
\* below) the price of the attempt before.
C3_MarginGrowsWithRetries ==
  pc = "submit" =>
    /\ raw_price = raw_price_num(base_price, side,
                      slippage_bps + (attempt - 1) * per_attempt_drift_bps)
    /\ same_book =>
         (IF side = SIDE_BUY THEN price > prev_price ELSE price < prev_price)

\* C4 (as claimed): after the first attempt the margin is applied to
\* base_price_ref, the covering price of attempt 1: raw_price is
\* base_price_ref with some margin between 0 and slippage_bps +
\* max_total_drift_bps.
C4_MarginOnReferencePrice ==
  (pc = "submit" /\ attempt >= 2) =>
    \E m \in 0..(slippage_bps + max_total_drift_bps) :
      raw_price = raw_price_num(base_price_ref, side, m)

\* C5 (as claimed): a rejection that is neither a rate limit nor a FOK kill
\* ends the execution at once: no sleep, no further order-book fetch or
\* submission follows it, and it is the error raised.
C5_FatalRejectionAborts ==
  last_err.kind = "Fatal" =>
    /\ pc \in {"rejected", "after_loop", "done"}
    /\ n_sleep < last_err.attempt
    /\ n_book_fetch = last_err.attempt
    /\ n_submit = last_err.attempt
    /\ Ended => raised = last_err

\* C6 (as claimed): a rate-limited rejection leaves total_drift_bps as it
\* was and never ends the loop through the drift-budget check.
C6_RateLimitKeepsDrift ==
  [][(pc = "rejected" /\ last_err.kind = "RateLimit")
       => (total_drift_bps' = total_drift_bps /\ budget_break' = budget_break)]_vars

\* C7: when the fetched book's relevant side holds less than the requested
\* quantity, the price search ends the execution with the
\* insufficient-liquidity error: nothing is submitted in that attempt,
\* total_drift_bps stays as it was (0 on the first attempt), no sleep and no
\* further attempt follow.
C7_InsufficientLiquidityEnds ==
  /\ [][(pc = "find_price" /\ TotalDepth(SideLevels(book, side)) < quantity)
          => \/ UNCHANGED vars
             \/ /\ pc' = "done"
                /\ outcome' = "raised"
                /\ raised' = [kind |-> "InsufficientLiquidity", attempt |-> attempt]
                /\ UNCHANGED <<n_submit, n_sleep, total_drift_bps, n_book_fetch>>]_vars
  /\ [][Ended => UNCHANGED vars]_vars
  /\ []((outcome = "raised" /\ raised.kind = "InsufficientLiquidity") =>
          /\ Ended
          /\ n_submit = raised.attempt - 1
          /\ n_book_fetch = raised.attempt
          /\ (raised.attempt = 1 => total_drift_bps = 0))

C7_Witness ==
  /\ Ended
  /\ outcome = "raised"
  /\ raised.kind = "InsufficientLiquidity"
  /\ raised.attempt = 2
  /\ n_submit = 1
  /\ total_drift_bps = per_attempt_drift_bps
  /\ Len(book.asks) > 0

\* C8: on asks in ascending price order that cover the target, a BUY search
\* returns the lowest ask price P with depth at prices <= P at least the
\* target; on bids in descending order that cover it, a SELL search returns
\* the highest bid price P with depth at prices >= P at least the target.
C8_CoveringPrice ==
  \A k \in DOMAIN pf_results :
    LET levels == SideLevels(pf_book, pf_side)
        res == pf_results[k]
    IN  /\ (pf_side = SIDE_BUY /\ IsAscending(levels) /\ TotalDepth(levels) >= pf_quantity)
             => /\ res \in PricesOf(levels)
                /\ DepthAtOrBelow(levels, res) >= pf_quantity
                /\ \A p \in PricesOf(levels) :
                     DepthAtOrBelow(levels, p) >= pf_quantity => res <= p
        /\ (pf_side = SIDE_SELL /\ IsDescending(levels) /\ TotalDepth(levels) >= pf_quantity)
             => /\ res \in PricesOf(levels)
                /\ DepthAtOrAbove(levels, res) >= pf_quantity
                /\ \A p \in PricesOf(levels) :
                     DepthAtOrAbove(levels, p) >= pf_quantity => res >= p

\* asks 2 @ 10 and 1 @ 11 with target 3 give 11 (scenario A at scale)
C8_Witness ==
  /\ Len(pf_results) >= 1
  /\ pf_side = SIDE_BUY
  /\ pf_book.asks = <<(<<10, 2>>), (<<11, 1>>)>>
  /\ pf_quantity = 3
  /\ pf_results[1] = 11

\* C9: the price search fails with the insufficient-liquidity error exactly
\* when the depth over all levels of the relevant side is below the target
\* quantity, and returns a price otherwise; an empty side fails.
C9_FailsIffDepthBelowTarget ==
  \A k \in DOMAIN pf_results :
    LET levels == SideLevels(pf_book, pf_side)
    IN  /\ (pf_results[k] = NoPrice) <=> (TotalDepth(levels) < pf_quantity)
        /\ pf_results[k] # NoPrice => pf_results[k] \in PricesOf(levels)
        /\ levels = <<>> => pf_results[k] = NoPrice

C9_Witness ==
  /\ Len(pf_results) >= 1
  /\ pf_side = SIDE_SELL
  /\ pf_book.bids = <<>>
  /\ pf_book.asks # <<>>
  /\ pf_results[1] = NoPrice

\* C10 (as claimed): the quantity the min-notional step returns has
\* price * qty >= min_notional (the code has no NotionalTooSmall failure to
\* take instead).
C10_NotionalAtLeastMin ==
  qz_pc = "done" => qz_price * qz_out >= qz_f.min_notional

InRange(f, q) == f.min_qty <= q /\ q <= f.max_qty
\* the step of line 138 in the pipeline of lines 135-138
QzPipelineStep == qz_pc = "filtered" /\ qz_pc' = "done"

\* C11 (as claimed): the quantity the pipeline of lines 135-138 hands to
\* create_order is an exact multiple of step_size and at or below the
\* requested quantity.
C11_MultipleAtOrBelowRequested ==
  [][QzPipelineStep =>
       /\ qz_out' % qz_f.step_size = 0
       /\ qz_out' <= qz_qty_in]_vars

\* C11 (amended): that quantity is an exact multiple of step_size unless it
\* is one of the bounds min_qty, max_qty, and it is at or below the
\* requested quantity unless it was raised to min_qty or inflated because
\* the notional of the filtered quantity was below min_notional.
C11_MultipleOrBoundAndBelowUnlessRaised ==
  [][QzPipelineStep =>
       /\ \/ qz_out' % qz_f.step_size = 0
          \/ qz_out' \in {qz_f.min_qty, qz_f.max_qty}
       /\ \/ qz_out' <= qz_qty_in
          \/ qz_out' = qz_f.min_qty
          \/ qz_price * qz_qty < qz_f.min_notional]_vars

\* a requested 3 on a step of 2 is submitted as 2
C11_Witness ==
  /\ qz_pc = "done"
  /\ qz_f.step_size = 2
  /\ qz_f.min_qty = 0
  /\ qz_qty_in = 3
  /\ qz_qty = 2
  /\ qz_out = 2

\* C12: with min_qty <= max_qty the quantity _apply_filters returns lies in
\* [min_qty, max_qty], and so does the quantity _ensure_min_notional returns
\* for it.
C12_QuantityWithinBounds ==
  /\ []((qz_pc = "filtered" /\ qz_f.min_qty <= qz_f.max_qty) => InRange(qz_f, qz_qty))
  /\ [][(QzPipelineStep /\ qz_f.min_qty <= qz_f.max_qty) => InRange(qz_f, qz_out')]_vars

\* a requested 1 is raised to min_qty = 2, and an inflated quantity is held
\* at max_qty
C12_Witness ==
  /\ qz_pc = "done"
  /\ qz_f.min_qty = 2
  /\ qz_qty_in = 1
  /\ qz_qty = 2
  /\ qz_out = qz_f.max_qty

\* C13: the price _round_price_for_side returns is a multiple of the tick,
\* for BUY the smallest one at or above raw_price and for SELL the largest
\* one at or below it; so the BUY price is never below, and the SELL price
\* never above, the covering price of the attempt's book.
C13_PriceRoundedTowardFill ==
  pc \in {"min_notional", "submit"} =>
    LET tick == exch_info.tick_size IN
      /\ price % tick = 0
      /\ side = SIDE_BUY =>
           /\ price * BpsScale >= raw_price
           /\ (price - tick) * BpsScale < raw_price
           /\ price >= base_price
      /\ side = SIDE_SELL =>
           /\ price * BpsScale <= raw_price
           /\ (price + tick) * BpsScale > raw_price
           /\ price <= base_price

\* a BUY at covering price 11 with 5 bps of slippage on a tick of 2 goes out
\* at 12
C13_Witness ==
  /\ pc = "submit"
  /\ side = SIDE_BUY
  /\ slippage_bps = 5
  /\ exch_info.tick_size = 2
  /\ base_price = 11
  /\ price = 12

\* C14: for a positive price _ensure_min_notional returns qty unchanged when
\* price * qty >= min_notional, and otherwise min_notional / price floored
\* to step_size and clamped to [min_qty, max_qty].
C14_MinNotionalResult ==
  (qz_pc = "done" /\ qz_price >= 1) =>
    qz_out =
      IF qz_price * qz_qty >= qz_f.min_notional THEN qz_qty
      ELSE Min(Max((qz_f.min_notional \div (qz_price * qz_f.step_size))
                      * qz_f.step_size,
                   qz_f.min_qty),
               qz_f.max_qty)

\* min_notional 10, price 2, qty 3, step 1 give 5 (scenario B)
C14_Witness ==
  /\ qz_pc = "done"
  /\ qz_f.min_notional = 10
  /\ qz_f.step_size = 1
  /\ qz_price = 2
  /\ qz_qty = 3
  /\ qz_out = 5

LowestOf(S) == CHOOSE p \in S : \A r \in S : p <= r
HighestOf(S) == CHOOSE p \in S : \A r \in S : p >= r
\* the covering price of a sorted book that holds the quantity
CoveringPriceOf(b, s, q) ==
  IF s = SIDE_BUY
  THEN LowestOf({p \in PricesOf(b.asks) : DepthAtOrBelow(b.asks, p) >= q})
  ELSE HighestOf({p \in PricesOf(b.bids) : DepthAtOrAbove(b.bids, p) >= q})

\* C15: an attempt prices its submission from the order book fetched in that
\* same attempt, after the previous attempt's submission came back: each
\* attempt has its own fetch, base_price is the covering price of the book
\* now held, and raw_price is computed from it.
C15_FreshBookPerAttempt ==
  /\ pc \in {"find_price", "apply_filters", "min_notional", "submit"} =>
       /\ n_book_fetch = attempt
       /\ n_submit = attempt - 1
  /\ pc \in {"apply_filters", "min_notional", "submit"} =>
       base_price = CoveringPriceOf(book, side, quantity)
  /\ pc \in {"min_notional", "submit"} =>
       raw_price = raw_price_num(base_price, side, slippage_bps)

C15_Witness ==
  /\ pc = "submit"
  /\ attempt = 2
  /\ ~same_book
  /\ base_price # base_price_ref
  /\ n_book_fetch = 2

\* C16 (as claimed): within one execution the symbol's filters are fetched
\* from the exchange at most once.
C16_FiltersFetchedOnce == n_filter_fetch <= 1

\* C17: once create_order has accepted the order the execution has returned:
\* it is over, nothing was raised, and no order-book fetch, submission, drift
\* bump or sleep has followed the accepted submission.
C17_FillReturnsAtOnce ==
  outcome = "returned" =>
    /\ Ended
    /\ raised = NoErr
    /\ n_submit = attempt
    /\ n_book_fetch = attempt
    /\ n_sleep = attempt - 1
    /\ total_drift_bps = (attempt - 1) * per_attempt_drift_bps

C17_Witness ==
  /\ outcome = "returned"
  /\ attempt = 2
  /\ n_sleep = 1
  /\ attempt < max_retries

\* C18: the number of attempts never exceeds max_retries and each attempt
\* submits at most once, so create_order is called at most max_retries times.
C18_AtMostMaxRetries ==
  /\ attempt <= max_retries
  /\ n_submit <= attempt
  /\ n_submit >= attempt - 1
  /\ n_submit <= max_retries

C18_Witness ==
  /\ Ended
  /\ max_retries >= 3
  /\ n_submit = max_retries
  /\ last_err.kind = "RateLimit"

\* C19: when all max_retries submissions were rejected, the error held after
\* the loop is the one of the last submission, and it is the error raised
\* (an execution whose last submission was made ends with the fill, with a
\* non-exchange failure of that submission, or with its rejection).
C19_LastErrorSurfaced ==
  /\ (pc = "after_loop" /\ max_retries >= 1 /\ n_submit = max_retries) =>
       (last_err.attempt = max_retries /\ last_err.kind \in ExchangeErrKinds)
  /\ (Ended /\ max_retries >= 1 /\ n_submit = max_retries) =>
       \/ outcome = "returned"
       \/ outcome = "raised" /\ raised.kind = "Network"
       \/ /\ outcome = "raised"
          /\ raised.kind \in ExchangeErrKinds
          /\ raised.attempt = max_retries
          /\ raised = last_err

C19_Witness ==
  /\ Ended
  /\ max_retries = 3
  /\ n_submit = 3
  /\ ~budget_break
  /\ outcome = "raised"
  /\ raised = [kind |-> "FokKill", attempt |-> 3]

\* C20 (as claimed): when the loop stops on the drift-budget check the
\* failure raised is the typed DriftBudgetExceeded, not the failure raised
\* when max_retries is used up.
C20_TypedBudgetFailure ==
  (Ended /\ budget_break) => raised.kind = "DriftBudgetExceeded"

C22_TerminatesReturnOrRaise ==
  /\ <>Ended
  /\ [](Ended =>
         \/ /\ outcome = "returned"
            /\ raised = NoErr
            /\ n_submit >= 1
            /\ n_submit = attempt
         \/ /\ outcome = "raised"
            /\ raised # NoErr)
  /\ [](~Ended => (outcome = "running" /\ raised = NoErr))

C22_Witness ==
  /\ Ended
  /\ outcome = "raised"
  /\ raised.kind = "RuntimeError"
  /\ max_retries = 0
  /\ n_book_fetch = 0

\* C23: total_drift_bps is 0 when the execution starts and no step of the
\* execution makes it smaller.
C23_DriftStartsAtZeroNeverDecreases ==
  /\ total_drift_bps = 0
  /\ [][total_drift_bps' >= total_drift_bps]_vars

C23_Witness ==
  /\ pc = "sleep"
  /\ per_attempt_drift_bps = 5
  /\ total_drift_bps = 10
  /\ n_submit = 2

\* the rejected submissions so far whose budget check let the retry go on:
\* each of them is followed by one sleep, the last one possibly still to come
PassedBudgetCheck == n_sleep + (IF pc = "sleep" THEN 1 ELSE 0)

\* C24: at every point total_drift_bps is per_attempt_drift_bps times the
\* number of rejected submissions so far that passed the budget check; while
\* an attempt is under way these are the attempts before it.
C24_DriftIsBumpTimesPassed ==
  /\ total_drift_bps = per_attempt_drift_bps * PassedBudgetCheck
  /\ PassedBudgetCheck <= n_submit
  /\ pc \in {"fetch_book", "find_price", "apply_filters", "min_notional",
             "submit", "rejected"} =>
       PassedBudgetCheck = attempt - 1
  /\ pc = "sleep" => (PassedBudgetCheck = attempt /\ n_submit = attempt)

C24_Witness ==
  /\ pc = "rejected"
  /\ attempt = 3
  /\ per_attempt_drift_bps = 2
  /\ total_drift_bps = 4
  /\ last_err.kind = "FokKill"

\* C25: an attempt starts, and an order book is fetched, only when every
\* submission made so far has come back rejected and has been followed by
\* its sleep: the steps of one execution are one sequence, attempt after
\* attempt, with a sleep between a rejection and the next fetch.
C25_SequentialDelayedRetries ==
  /\ [][attempt' # attempt =>
         /\ attempt' = attempt + 1
         /\ n_submit = attempt
         /\ n_sleep = attempt
         /\ attempt >= 1 => last_err.attempt = attempt]_vars
  /\ [][n_book_fetch' # n_book_fetch =>
         /\ n_book_fetch' = attempt
         /\ n_submit = attempt - 1
         /\ n_sleep = n_submit]_vars
  /\ [][n_submit' # n_submit =>
         /\ n_submit' = attempt
         /\ n_book_fetch = attempt
         /\ n_sleep = attempt - 1]_vars

C25_Witness ==
  /\ pc = "find_price"
  /\ attempt = 3
  /\ n_book_fetch = 3
  /\ n_sleep = 2
  /\ last_err = [kind |-> "RateLimit", attempt |-> 2]

\* what one of the calls holds: its locals and its outcome
CcState(i) ==
  [outcome |-> cc_outcome[i], raised |-> cc_raised[i],
   attempt |-> cc_attempt[i], total_drift_bps |-> cc_total_drift_bps[i],
   base_price_ref |-> cc_base_price_ref[i], last_err |-> cc_last_err[i]]

\* C26: with two calls interleaved in any order, a step of one call leaves
\* the attempt counter, the consumed drift, the reference price, the last
\* error and the outcome of the other untouched, and a call that has ended
\* holds exactly what a run by itself against the same exchange answers
\* ends with.
C26_ConcurrentCallsIndependent ==
  /\ [](\A i \in Execs :
          cc_pc[i] = "done" => CcState(i) = RunAlone(cc_par[i], cc_hist[i]))
  /\ [][\A i \in Execs :
          (cc_pc'[i] = cc_pc[i]) =>
            /\ CcState(i)' = CcState(i)
            /\ cc_hist'[i] = cc_hist[i]
            /\ cc_par'[i] = cc_par[i]]_vars

C26_Witness ==
  /\ cc_pc[1] = "done"
  /\ cc_outcome[1] = "returned"
  /\ cc_attempt[1] = 2
  /\ cc_total_drift_bps[1] = 2
  /\ cc_pc[2] = "after_loop"
  /\ cc_attempt[2] = 1
  /\ cc_par[2].max_retries = 2
  /\ cc_total_drift_bps[2] = 0
  /\ cc_last_err[2].kind = "RateLimit"

C28_RetryOnError ==
  /\ ro_calls = Len(ro_hist)
  /\ ro_calls <= ro_max_retries
  /\ \A k \in 1..(Len(ro_hist) - 1) : ro_hist[k] \in RoFailures
  /\ (ro_hist # <<>> /\ ro_hist[Len(ro_hist)] \in RoValues) =>
       /\ ro_pc = "done"
       /\ ro_outcome = "returned"
       /\ ro_value = ro_hist[Len(ro_hist)]
  /\ ro_pc = "done" =>
       /\ ro_outcome \in {"returned", "RuntimeError"}
       /\ ro_outcome = "returned" =>
            (ro_hist # <<>> /\ ro_hist[Len(ro_hist)] \in RoValues)
       /\ ro_outcome = "RuntimeError" <=>
            /\ ro_calls = ro_max_retries
            /\ \A k \in 1..Len(ro_hist) : ro_hist[k] \in RoFailures
  /\ ro_pc # "done" => ro_outcome = "running"

C28_Witness ==
  /\ ro_pc = "done"
  /\ ro_max_retries = 3
  /\ ro_hist = <<"RateLimit", "Binance", "Other">>
  /\ ro_outcome = "RuntimeError"

\* C29: every order of a switch is sent min_switch_interval seconds or more
\* after last_switch_time; need_to_switch called inside the window returns
\* False for every pair of assets; and the trading loop leaves its cooldown
\* check for need_to_switch only outside the window.
C29_NoSwitchInsideCooldown ==
  /\ [](/\ sw_order_gap # NoGap => sw_order_gap >= min_switch_interval
        /\ (sw_probe.made /\ sw_probe.elapsed < min_switch_interval) =>
             ~sw_probe.result
        /\ sw_pc \in {"need", "execute", "ordered", "reordered"} =>
             sw_now - sw_last_switch_time >= min_switch_interval)
  /\ [][(sw_pc = "cooldown"
          /\ sw_now - sw_last_switch_time < min_switch_interval
          /\ sw_pc' # sw_pc) => sw_pc' = "start"]_vars

C29_Witness ==
  /\ sw_pc = "probed"
  /\ sw_probe.differ
  /\ sw_probe.elapsed = 9
  /\ ~sw_probe.result
  /\ sw_last_switch_time = 12

\* the conditions of the three decided states, with the comparisons of floats
MsFlat ==
  /\ FLt(ms_atr_percent, AtrFlat)
  /\ FLe(RsiLow, ms_rsi) /\ FLe(ms_rsi, RsiHigh)
  /\ ms_trend_4h = "sideways"
MsMoving ==
  /\ FLe(AtrFlat, ms_atr_percent)
  /\ (FLt(ms_rsi, RsiLow) \/ FLt(RsiHigh, ms_rsi))

\* C30: _determine_market_state returns one of flet, buy, sell, no_trade:
\* flet iff atr_percent < 0.4, 45 <= rsi <= 55 and the 4h trend is sideways;
\* buy iff atr_percent >= 0.4, rsi < 45 or rsi > 55, and the 1h signal and
\* the 4h trend are both long; sell iff the same with both short; no_trade
\* in every other case.
C30_MarketState ==
  ms_pc = "done" =>
    /\ ms_market_state \in MarketStates
    /\ ms_market_state = "flet" <=> MsFlat
    /\ ms_market_state = "buy" <=>
         (MsMoving /\ ms_signal_1h = "long" /\ ms_trend_4h = "long")
    /\ ms_market_state = "sell" <=>
         (MsMoving /\ ms_signal_1h = "short" /\ ms_trend_4h = "short")
    /\ ms_market_state = "no_trade" <=>
         /\ ~MsFlat
         /\ ~(MsMoving /\ ms_signal_1h = "long" /\ ms_trend_4h = "long")
         /\ ~(MsMoving /\ ms_signal_1h = "short" /\ ms_trend_4h = "short")

C30_Witness ==
  /\ ms_pc = "done"
  /\ ms_atr_percent = AtrFlat
  /\ ms_rsi = 56
  /\ ms_signal_1h = "long"
  /\ ms_trend_4h = "long"
  /\ ms_market_state = "buy"
  /\ ms_should_hold_base

\* C37: a rejected submission whose budget check passes is followed by the
\* drift bump and by the sleep, also when it was the submission of attempt
\* max_retries, after which the loop is only left; a rejection that fails
\* the budget check and a fill are followed by no sleep.
C37_SleepAfterEveryPassedRejection ==
  /\ [][(pc = "rejected" /\ pc' # pc) =>
         IF total_drift_bps + per_attempt_drift_bps > max_total_drift_bps
         THEN pc' = "after_loop" /\ n_sleep' = n_sleep
              /\ total_drift_bps' = total_drift_bps
         ELSE pc' = "sleep"
              /\ total_drift_bps' = total_drift_bps + per_attempt_drift_bps]_vars
  /\ [][(pc = "sleep" /\ pc' # pc) =>
         (pc' = "loop" /\ n_sleep' = n_sleep + 1)]_vars
  /\ [](Ended =>
         /\ outcome = "returned" => n_sleep = n_submit - 1
         /\ budget_break => n_sleep = n_submit - 1
         /\ (RaisedLastErr /\ ~budget_break) =>
              /\ n_submit = max_retries
              /\ n_sleep = max_retries
              /\ total_drift_bps = max_retries * per_attempt_drift_bps)

C37_Witness ==
  /\ Ended
  /\ RaisedLastErr
  /\ ~budget_break
  /\ max_retries = 2
  /\ n_sleep = 2
  /\ per_attempt_drift_bps = 5
  /\ total_drift_bps = 10

\* the errors that do not come from a rejected submission
OutsideErrKinds ==
  FetchErrKinds \cup {"InsufficientLiquidity", "SymbolNotFound", "Network"}

\* C38: an exception of the order-book fetch, of the covering-price search
\* or of a filter lookup, and a non-exchange exception of create_order, ends
\* the execution in the step that raises it: it is what the caller gets, and
\* that step neither sleeps nor bumps the drift nor starts an attempt, and
\* nothing follows it.
C38_OutsideErrorsPropagateAtOnce ==
  /\ [][(outcome' = "raised" /\ raised'.kind \in OutsideErrKinds) =>
         /\ outcome = "running"
         /\ pc \in {"fetch_book", "find_price", "apply_filters",
                    "min_notional", "submit"}
         /\ pc' = "done"
         /\ raised'.attempt = attempt
         /\ UNCHANGED <<attempt, total_drift_bps, n_sleep, last_err>>
         /\ n_submit' = n_submit + (IF pc = "submit" THEN 1 ELSE 0)]_vars
  /\ [][(pc \in {"fetch_book", "find_price", "apply_filters", "min_notional"}
          /\ pc' # pc) =>
         pc' \in {"find_price", "apply_filters", "min_notional", "submit", "done"}]_vars
  /\ [](Ended /\ outcome = "raised" /\ raised.kind \in OutsideErrKinds =>
         /\ n_sleep = attempt - 1
         /\ total_drift_bps = (attempt - 1) * per_attempt_drift_bps
         /\ n_submit \in {attempt - 1, attempt}
         /\ n_book_fetch = attempt)

C38_Witness ==
  /\ Ended
  /\ outcome = "raised"
  /\ raised = [kind |-> "ApiError", attempt |-> 2]
  /\ n_book_fetch = 2
  /\ n_submit = 1
  /\ n_filter_fetch = 2
  /\ max_retries >= 3

\* C31: in a cycle whose MA_RSI_ATR analysis yielded flet or no_trade no
\* order is placed and the cycle does not go on to the classic strategy or
\* the switch: it ends in the CHECK_INTERVAL sleep.  The loop reads the key
\* "30m", which analyze never returns, so the cycle falls back to SIMPLE_MA
\* and trades on the moving averages.
C31_FletAndNoTradeSkipTheCycle ==
  tl_analysis \in {"flet", "no_trade"} =>
    /\ tl_orders = 0
    /\ tl_pc = "while"
    /\ tl_slept = "check_interval"

\* C32: switches_count goes up by exactly one in a cycle in which
\* execute_switch returned True and changes in no other step of the loop;
\* last_switch_time is written only when a market order call returned; a
\* failed switch adds one to error_count and leaves both as they were.
C32_SwitchBookkeeping ==
  /\ [][tl_switches_count' # tl_switches_count =>
          /\ tl_switches_count' = tl_switches_count + 1
          /\ tl_success # "True" /\ tl_success' = "True"]_vars
  /\ [][(tl_success # "True" /\ tl_success' = "True") =>
          tl_switches_count' = tl_switches_count + 1]_vars
  /\ [][tl_last_switch_time' # tl_last_switch_time =>
          /\ tl_pc \in {"ordered", "reordered"}
          /\ tl_orders >= 1
          /\ tl_success' = "True"
          /\ tl_last_switch_time' = tl_now]_vars
  /\ [][(tl_success # "False" /\ tl_success' = "False") =>
          /\ tl_error_count' = tl_error_count + 1
          /\ tl_switches_count' = tl_switches_count
          /\ tl_last_switch_time' = tl_last_switch_time]_vars
  /\ [](tl_switches_count =
          tl_count_at_begin + (IF tl_success = "True" THEN 1 ELSE 0))

C32_Witness ==
  /\ tl_cycle = 3
  /\ tl_success = "True"
  /\ tl_switches_count = 2
  /\ tl_error_count = 1
  /\ tl_last_switch_time = 20
  /\ tl_pc = "end"

\* C33: a /start request that finds running True calls init_client no more,
\* starts no thread and leaves bot_status, state.json and running as they
\* are; a /start request without API keys leaves running False, and without
\* API keys running is never True.
C33_StartWhileRunningIsIgnored ==
  /\ [][(svc_n_req' = svc_n_req + 1 /\ svc_last_req' = "start" /\ svc_running) =>
          /\ svc_inits' = svc_inits
          /\ svc_th' = svc_th
          /\ svc_start_pc' = svc_start_pc
          /\ svc_status' = svc_status
          /\ svc_strategy_type' = svc_strategy_type
          /\ svc_file' = svc_file
          /\ svc_running' = svc_running]_vars
  /\ [][(svc_n_req' = svc_n_req + 1 /\ svc_last_req' = "start" /\ ~svc_api_keys) =>
          /\ ~svc_running'
          /\ svc_inits' = svc_inits
          /\ svc_th' = svc_th]_vars
  /\ [](~svc_api_keys => ~svc_running)

C33_Witness ==
  /\ svc_api_keys
  /\ svc_running
  /\ svc_n_req = 1
  /\ svc_last_req = "start"
  /\ svc_inits = 1
  /\ svc_start_pc = "idle"
  /\ svc_th[1] = "cycle"
  /\ svc_th[2] = "unborn"

\* C34: at most one trading_loop thread is inside a cycle of its loop.
\* A thread that sleeps through a /stop and the /start after it finds running
\* True again and goes on next to the thread /start has created.
C34_OneThreadInTheLoop == Cardinality(InCycle) <= 1

\* C35: once /stop is the last request for good, every thread that was
\* started ends up outside its while loop.  A thread /start has just created
\* sets running back to True on lines 1026-1029 when /stop got in first.
C35_StopEndsEveryLoop == (<>[](svc_last_req = "stop")) => <>[](InLoop = {})

\* C36: a loop that has set strategy_type to SIMPLE_MA runs the MA_RSI_ATR
\* analysis in no later cycle.
C36_NoWayBackFromSimpleMa == \A t \in Threads : ~svc_reanalysed[t]
====
